---- MODULE Spec2Model ----
(***************************************************************************)
(* State machine of web/static/app.js: the refresh controller, the         *)
(* preference state, the confirmation modal, the filter debounce and the   *)
(* reconciliation of the rendered game/stream hierarchy.                   *)
(*                                                                         *)
(* Every handler of the script is a function from a world record (all the  *)
(* mutable state the script touches) to a world record; an action applies  *)
(* one handler, or one timer callback, to the current world.               *)
(***************************************************************************)
EXTENDS Integers, Sequences, FiniteSets, TLC

VARIABLES
  state,    \* the script's `state` object (app.js 293-307)
  cookies,  \* document.cookie, one entry per cookie name
  dom,      \* #followedGames: placeholder, children, and every element created
  timers,   \* pending setTimeout callbacks, in creation order
  net,      \* outstanding GET /api/streams requests
  confirm,  \* _confirmResolve, the promises handed out, the modal's visibility
  env,      \* what the page gives the script: globals, container width, elements
  hist,     \* history of the run (what the last step did); read by properties only
  budget    \* user and server events the run may still take

vars == <<state, cookies, dom, timers, net, confirm, env, hist, budget>>

----------------------------------------------------------------------------
(* Values *)

Null == <<>>
Some(x) == <<x>>

NoName == "<null>"      \* a null/absent user_name

Min(a, b) == IF a <= b THEN a ELSE b
Max(a, b) == IF a >= b THEN a ELSE b

RECURSIVE SeqMin(_)
SeqMin(s) == IF Len(s) = 1 THEN s[1] ELSE Min(s[1], SeqMin(Tail(s)))

Range(s) == {s[i] : i \in DOMAIN s}

\* Array.prototype.filter keeping the elements different from x
Without(s, x) == SelectSeq(s, LAMBDA y : y # x)

Contains(s, x) == \E i \in DOMAIN s : s[i] = x

\* app.js 74-76: Array.from(new Set(arr)) keeps the first occurrence of each
RECURSIVE unique(_)
\* the array handed back as it came
unique_Kept(arr) == arr

unique(arr) ==
  IF arr = <<>> THEN <<>>
  ELSE LET init == unique(SubSeq(arr, 1, Len(arr) - 1))
           last == arr[Len(arr)]
       IN IF Contains(init, last) THEN init ELSE Append(init, last)

\* String(x) of a JSON scalar.  A JSON number is written "#" and its digits, a
\* string as its text: String gives the digits of the one, the text of the other.
String(x) ==
  CASE x = "#g1" -> "g1"
    [] x = "#ua" -> "ua"
    [] OTHER -> x

\* s.trim(): " g1" is g1 with white space around it, " " is white space alone
Trim(x) ==
  CASE x = " g1" -> "g1"
    [] x = " " -> ""
    [] OTHER -> x

\* app.js 66-72; v is Null (parameter absent) or Some(the comma-separated pieces)
parseCsvParam(v) ==
  IF v = Null THEN <<>>
  ELSE SelectSeq([i \in DOMAIN v[1] |-> Trim(v[1][i])], LAMBDA x : x # "")

----------------------------------------------------------------------------
(* Entities the platform can send *)

GameIds == {"g1", "g2"}

StreamPool ==
  { [id |-> "a", user_id |-> "ua", user_name |-> "A"],
    [id |-> "b", user_id |-> "ub", user_name |-> NoName],
    [id |-> "c", user_id |-> "uc", user_name |-> "C"] }

StreamIds == {s.id : s \in StreamPool}
UserIds == {s.user_id : s \in StreamPool}

\* the longest stream list of one game group
MaxStreams == 2

IsInjective(s) == \A i, j \in DOMAIN s : s[i] = s[j] => i = j

\* ordered stream lists without a repeated id
StreamLists ==
  { l \in UNION { [1..n -> StreamPool] : n \in 0..MaxStreams } : IsInjective(l) }

GameGroup(g, l) == [game |-> [id |-> g], streams |-> l]

----------------------------------------------------------------------------
(* The world: everything a handler can read or write.  `thrown` is set when *)
(* an exception is propagating; it is never part of a state.                *)

World ==
  [ state |-> state, cookies |-> cookies, dom |-> dom, timers |-> timers,
    net |-> net, confirm |-> confirm, env |-> env, hist |-> hist,
    thrown |-> FALSE ]

\* catch: the exception stops here
Caught(w) == [w EXCEPT !.thrown = FALSE]

----------------------------------------------------------------------------
(* Timers.  `due` is the time left in ms; callbacks run in order of         *)
(* deadline and, at equal deadlines, in order of creation.                  *)

EXIT_MS == 280
DEFERRED_MS == 320
FILTER_DEBOUNCE_MS == 250
CONFIRM_CLOSE_MS == 200

Timer(kind, due, node, version, streams, result) ==
  [ kind |-> kind, due |-> due, node |-> node, version |-> version,
    streams |-> streams, result |-> result ]

setTimeout(w, t) == [w EXCEPT !.timers = Append(@, t)]

\* clearTimeout of the one pending timer of this kind (a module-level timer handle)
clearTimeout(w, kind) ==
  [w EXCEPT !.timers = SelectSeq(@, LAMBDA t : t.kind # kind)]

Pending(w, kind) == \E i \in DOMAIN w.timers : w.timers[i].kind = kind

----------------------------------------------------------------------------
(* Elements.  An element is its index in dom.nodes; it keeps that index for *)
(* life, attached or not.  A game card carries its stream list and its      *)
(* _streamsRenderVersion; a stream row carries row._streamData.             *)

Node(kind, key, data) ==
  [ kind |-> kind, key |-> key, data |-> data, exiting |-> FALSE,
    enters |-> 0, list |-> <<>>, version |-> 0 ]

\* document.createElement
createElement(w, kind, key, data) ==
  [w EXCEPT !.dom.nodes = Append(@, Node(kind, key, data))]

\* the element createElement has just returned
Newest(w) == Len(w.dom.nodes)

\* el.remove(): detach from whichever parent holds it
RECURSIVE DetachFromLists(_, _)
DetachFromLists(nodes, n) ==
  IF nodes = <<>> THEN <<>>
  ELSE Append(DetachFromLists(SubSeq(nodes, 1, Len(nodes) - 1), n),
              [nodes[Len(nodes)] EXCEPT !.list = Without(@, n)])

removeEl(w, n) ==
  [w EXCEPT !.dom.children = Without(@, n),
            !.dom.nodes = DetachFromLists(@, n)]

\* root.innerHTML = `<div ...>text</div>`
setPlaceholder(w, text) ==
  [w EXCEPT !.dom.children = <<>>, !.dom.placeholder = text]

\* app.js 762-770
animateEnter(w, n) == [w EXCEPT !.dom.nodes[n].enters = @ + 1]

\* animateExitAndRemove without the guard of line 773
animateExitAndRemove_Unguarded(w, n) ==
  setTimeout([w EXCEPT !.dom.nodes[n].exiting = TRUE],
             Timer("exit", EXIT_MS, n, 0, <<>>, FALSE))

\* app.js 772-782
animateExitAndRemove(w, n) ==
  IF w.dom.nodes[n].exiting THEN w
  ELSE setTimeout([w EXCEPT !.dom.nodes[n].exiting = TRUE],
                  Timer("exit", EXIT_MS, n, 0, <<>>, FALSE))

\* the elements of `kids` whose data-*-id is `key`, in document order
Matching(w, kids, key) == SelectSeq(kids, LAMBDA n : w.dom.nodes[n].key = key)

\* new Map() filled by querySelectorAll(...).forEach(set): the last element wins
MapOf(w, kids, keys) ==
  [k \in keys |-> LET m == Matching(w, kids, k)
                  IN IF m = <<>> THEN Null ELSE Some(m[Len(m)])]

\* list.querySelector(`[data-stream-id="..."]`): the first element in document order
querySelector(w, kids, key) ==
  LET m == Matching(w, kids, key) IN IF m = <<>> THEN Null ELSE Some(m[1])

----------------------------------------------------------------------------
(* Layout (app.js 111-127).  Line 120 evaluates the free identifiers        *)
(* Ratelimit and Reset: where the page defines neither, the call throws a   *)
(* ReferenceError before anything is applied.                               *)

MASONRY_COL_WIDTH == 320
MASONRY_COL_GAP == 16

\* what one call of updateMasonryColumns was given and what it applied, if anything
LayoutCall(w, cardCount, applied) ==
  [cardCount |-> cardCount, width |-> w.env.clientWidth, applied |-> applied]

updateMasonryColumns(w, cardCount) ==
  IF ~w.env.rootPresent THEN w
  ELSE IF ~w.env.globalsDefined
       THEN [w EXCEPT !.thrown = TRUE,
                      !.hist.layout = Append(@, LayoutCall(w, cardCount, Null))]
  ELSE LET count == Max(0, cardCount)
           fit == Max(1, (w.env.clientWidth + MASONRY_COL_GAP)
                           \div (MASONRY_COL_WIDTH + MASONRY_COL_GAP))
           cols == Max(1, Min(fit, Max(1, count)))
       IN [w EXCEPT !.dom.columnCount = cols,
                    !.hist.layout = Append(@, LayoutCall(w, cardCount, Some(cols)))]

\* requestAnimationFrame(cb): cb runs in the next rendering frame
requestAnimationFrame(w, cb) == [w EXCEPT !.dom.frames = Append(@, cb)]

\* the statement after a call of updateMasonryColumns: reached unless the call threw
ThenRequestFrame(w, cb) == IF w.thrown THEN w ELSE requestAnimationFrame(w, cb)

\* root.children: the cards, or the one placeholder element
ChildCount(w) ==
  IF w.dom.children # <<>> THEN Len(w.dom.children)
  ELSE IF w.dom.placeholder # "none" THEN 1 ELSE 0

\* app.js 129-143; `used` is the number of distinct offsetLeft values the layout
\* engine has given the children
clampMasonryToUsedColumns(w, used) ==
  IF ~w.env.rootPresent THEN w
  ELSE IF ChildCount(w) = 0 THEN w
  ELSE LET current == w.dom.columnCount
       IN IF current # 0 /\ Max(1, used) < current
          THEN [w EXCEPT !.dom.columnCount = Max(1, used), !.hist.measured = @ + 1]
          ELSE [w EXCEPT !.hist.measured = @ + 1]

RESIZE_DEBOUNCE_MS == 100

\* app.js 149-158: the resize listener
resizeListener(w) ==
  setTimeout(clearTimeout(w, "resize"),
             Timer("resize", RESIZE_DEBOUNCE_MS, 0, 0, <<>>, FALSE))

\* window.dispatchEvent(resize): each registered listener runs
RECURSIVE dispatchResize(_, _)
dispatchResize(w, listeners) ==
  IF listeners = 0 THEN w ELSE dispatchResize(resizeListener(w), listeners - 1)

\* app.js 151-156: the callback of the resize timer
resizeCallback(w) ==
  LET payload == w.state.lastStreamsPayload
      count == IF payload = Null THEN 0 ELSE Len(payload[1].games)
  IN ThenRequestFrame(
       updateMasonryColumns([w EXCEPT !.hist.layoutPending = TRUE], count), "clampOnce")

\* one rendering frame: the callbacks requested before it run in order.
\* app.js 1070-1074 ("clampTwice", then "clampSecond" a frame later) and 156
RECURSIVE RunFrame(_, _, _)
RunFrame(w, cbs, used) ==
  IF cbs = <<>> THEN w
  ELSE LET w1 == clampMasonryToUsedColumns(w, used)
           w2 == IF cbs[1] = "clampTwice" THEN requestAnimationFrame(w1, "clampSecond")
                 ELSE IF cbs[1] = "clampSecond"
                      THEN [w1 EXCEPT !.hist.layoutPending = FALSE]
                      ELSE w1
       IN RunFrame(w2, Tail(cbs), used)

\* app.js 145-159 without the resize listener's body
bindMasonryResize(w) ==
  IF w.dom.masonryBound THEN w
  ELSE [w EXCEPT !.dom.masonryBound = TRUE, !.dom.resizeListeners = @ + 1]

----------------------------------------------------------------------------
(* Reconciliation of one game's stream rows (app.js 784-878, 960-1035)      *)

\* app.js 784-878, called with an existing row: refresh its content, keep the element
ensureStreamRow(w, row, stream) == [w EXCEPT !.dom.nodes[row].data = stream]

\* app.js 785-849, called with null: a new, detached row
newStreamRow(w, stream) == createElement(w, "stream", stream.id, stream)

\* app.js 974-980: rows whose id is not desired and that are not already exiting
Removals(w, list, desiredIds) ==
  SelectSeq(list, LAMBDA n :
    /\ w.dom.nodes[n].key \notin desiredIds
    /\ ~w.dom.nodes[n].exiting
    /\ MapOf(w, list, StreamIds)[w.dom.nodes[n].key] = Some(n))

\* app.js 982-992: update the rows that exist, create and append the others
RECURSIVE UpsertRows(_, _, _, _, _)
UpsertRows(w, card, arr, existing, i) ==
  IF i > Len(arr) THEN w
  ELSE LET s == arr[i]
           prev == existing[s.id]
       IN IF prev # Null
          THEN UpsertRows(ensureStreamRow(w, prev[1], s), card, arr, existing, i + 1)
          ELSE LET w1 == newStreamRow(w, s)
                   row == Newest(w1)
                   w2 == [w1 EXCEPT !.dom.nodes[card].list = Append(@, row)]
               IN UpsertRows(animateEnter(w2, row), card, arr, existing, i + 1)

\* app.js 996-998
RECURSIVE ExitAll(_, _)
ExitAll(w, rows) ==
  IF rows = <<>> THEN w ELSE ExitAll(animateExitAndRemove(w, rows[1]), Tail(rows))

\* app.js 1015-1022 and 1026-1033: move (or create) one row per stream into a
\* fragment, then append the fragment to the list.  `frag` is the fragment so far.
RECURSIVE Reorder(_, _, _, _, _, _)
Reorder(w, card, arr, existing, frag, i) ==
  IF i > Len(arr)
  THEN [w EXCEPT !.dom.nodes[card].list = @ \o frag]
  ELSE LET s == arr[i]
           found == IF existing[s.id] # Null THEN existing[s.id]
                    ELSE querySelector(w, w.dom.nodes[card].list, s.id)
           w1 == IF found # Null THEN ensureStreamRow(w, found[1], s)
                 ELSE newStreamRow(w, s)
           row == IF found # Null THEN found[1] ELSE Newest(w1)
           w2 == [w1 EXCEPT !.dom.nodes[card].list = Without(@, row)]
       IN Reorder(w2, card, arr, existing, Append(Without(frag, row), row), i + 1)

NoMap == [k \in StreamIds |-> Null]

\* app.js 1009-1012: remove the rows that are neither exiting nor in the payload
RECURSIVE ForceRemove(_, _, _)
ForceRemove(w, rows, latestIds) ==
  IF rows = <<>> THEN w
  ELSE LET n == rows[1]
           w1 == IF w.dom.nodes[n].exiting \/ w.dom.nodes[n].key \in latestIds
                 THEN w ELSE removeEl(w, n)
       IN ForceRemove(w1, Tail(rows), latestIds)

\* one use of card._streamsRenderVersion: a call that raises it from `from` to
\* `to`, or a deferred pass that captured `from` and finds `to`
GenerationUse(op, card, from, to) == [op |-> op, card |-> card, from |-> from, to |-> to]

\* the deferred pass without the check of line 1003
DeferredPass_Unchecked(w, card, myVersion, latest) ==
  LET w0 == [w EXCEPT !.hist.gen =
               Append(@, GenerationUse("pass", card, myVersion, w.dom.nodes[card].version))]
      latestIds == {latest[i].id : i \in DOMAIN latest}
      w1 == ForceRemove(w0, w0.dom.nodes[card].list, latestIds)
  IN Reorder(w1, card, latest, NoMap, <<>>, 1)

\* app.js 1002-1023: the deferred second pass, run by its timer
DeferredPass(w, card, myVersion, latest) ==
  LET w0 == [w EXCEPT !.hist.gen =
               Append(@, GenerationUse("pass", card, myVersion, w.dom.nodes[card].version))]
  IN IF w0.dom.nodes[card].version # myVersion THEN w0
     ELSE LET latestIds == {latest[i].id : i \in DOMAIN latest}
              w1 == ForceRemove(w0, w0.dom.nodes[card].list, latestIds)
          IN Reorder(w1, card, latest, NoMap, <<>>, 1)

\* updateGameStreams reordering at once although it found stale rows
updateGameStreams_ReorderNow(w, card, streams) ==
  LET arr == streams
      wv == [w EXCEPT !.dom.nodes[card].version = @ + 1]
      myVersion == wv.dom.nodes[card].version
      w0 == [wv EXCEPT !.hist.gen =
               Append(@, GenerationUse("update", card, w.dom.nodes[card].version, myVersion))]
      list == w0.dom.nodes[card].list
      existing == MapOf(w0, list, StreamIds)
      desiredIds == {arr[i].id : i \in DOMAIN arr}
      removals == Removals(w0, list, desiredIds)
      w1 == UpsertRows(w0, card, arr, existing, 1)
      w2 == Reorder(ExitAll(w1, removals), card, arr, existing, <<>>, 1)
  IN IF removals # <<>>
     THEN setTimeout(w2, Timer("deferred", DEFERRED_MS, card, myVersion, streams, FALSE))
     ELSE w2

\* app.js 960-1035
updateGameStreams(w, card, streams) ==
  LET arr == streams
      wv == [w EXCEPT !.dom.nodes[card].version = @ + 1]
      myVersion == wv.dom.nodes[card].version
      w0 == [wv EXCEPT !.hist.gen =
               Append(@, GenerationUse("update", card, w.dom.nodes[card].version, myVersion))]
      list == w0.dom.nodes[card].list
      existing == MapOf(w0, list, StreamIds)
      desiredIds == {arr[i].id : i \in DOMAIN arr}
      removals == Removals(w0, list, desiredIds)
      w1 == UpsertRows(w0, card, arr, existing, 1)
      w2 == ExitAll(w1, removals)
  IN IF removals # <<>>
     THEN setTimeout(w2, Timer("deferred", DEFERRED_MS, card, myVersion, streams, FALSE))
     ELSE Reorder(w2, card, arr, existing, <<>>, 1)

----------------------------------------------------------------------------
(* Reconciliation of the game cards (app.js 880-958, 1037-1076)             *)

\* app.js 880-958 with an existing card: refresh the header, keep the element
ensureGameCard(w, card, gameObj) == [w EXCEPT !.dom.nodes[card].data = gameObj.game]

\* app.js 880-958 with null: a new detached card, header filled, enter sequence started
newGameCard(w, gameObj) ==
  LET w1 == createElement(w, "game", gameObj.game.id, gameObj.game)
  IN animateEnter(w1, Newest(w1))

\* app.js 1055-1062.  `left` is existingCards: the cards not yet claimed by a group.
RECURSIVE RenderGroups(_, _, _, _)
RenderGroups(w, games, left, i) ==
  IF i > Len(games) THEN [w |-> w, left |-> left]
  ELSE LET g == games[i]
           gid == g.game.id
           prev == left[gid]
           w1 == IF prev # Null THEN ensureGameCard(w, prev[1], g) ELSE newGameCard(w, g)
           card == IF prev # Null THEN prev[1] ELSE Newest(w1)
           w2 == updateGameStreams(w1, card, g.streams)
           w3 == [w2 EXCEPT !.dom.children = Append(Without(@, card), card)]
       IN RenderGroups(w3, games, [left EXCEPT ![gid] = Null], i + 1)

\* app.js 1064-1066: the cards still in existingCards, in the order they were found
LeftOver(w, children, left) ==
  SelectSeq(children, LAMBDA n : left[w.dom.nodes[n].key] = Some(n))

\* app.js 1037-1076
renderFollowedGames(w) ==
  IF w.state.lastStreamsPayload = Null
  THEN updateMasonryColumns(setPlaceholder(w, "Loading"), 1)
  ELSE LET payload == w.state.lastStreamsPayload[1]
           w0 == [w EXCEPT !.dom.placeholder = "none"]
           existingCards == MapOf(w0, w0.dom.children, GameIds)
           r == RenderGroups(w0, payload.games, existingCards, 1)
           w1 == ExitAll(r.w, LeftOver(r.w, w0.dom.children, r.left))
       IN ThenRequestFrame(
            updateMasonryColumns([w1 EXCEPT !.hist.layoutPending = TRUE],
                                 Len(payload.games)),
            "clampTwice")

\* app.js 739-744
renderFollowedGamesLoading(w) ==
  IF w.dom.children = <<>> /\ w.dom.placeholder = "none"
  THEN setPlaceholder(w, "Loading") ELSE w

----------------------------------------------------------------------------
(* Preference state (app.js 11-16, 23-48, 176-198, 274-291, 480-500)        *)

\* A raw scalar as a text field or a JSON cookie can hold it.  tag "num" is a
\* finite number n/d; "blank" is a string of spaces; "nan" any other text.
Raw(tag, n, d) == [tag |-> tag, n |-> n, d |-> d]

\* Math.trunc of n/d: toward zero
Trunc(n, d) == IF n >= 0 THEN n \div d ELSE -((-n) \div d)

\* app.js 11-16.  Number("  ") is 0, Number("abc") is NaN.
clampInt(x) ==
  IF x.tag \in {"empty", "null", "undefined"} THEN Null
  ELSE IF x.tag = "blank" THEN Some(0)
  ELSE IF x.tag \in {"nan", "inf"} THEN Null
  ELSE Some(Trunc(x.n, x.d))

DefaultFilters ==
  [ verifiedOnly |-> FALSE, minViewers |-> Null, maxViewers |-> Null,
    minFollowers |-> Null, maxFollowers |-> Null ]

NumericKeys == {"minViewers", "maxViewers", "minFollowers", "maxFollowers"}

\* app.js 480-496; raw is Null (no cookie, or not an object) or Some(record of raws)
normalizeFilters(raw) ==
  IF raw = Null THEN DefaultFilters
  ELSE [ verifiedOnly |-> raw[1].verifiedOnly,
         minViewers |-> clampInt(raw[1].minViewers),
         maxViewers |-> clampInt(raw[1].maxViewers),
         minFollowers |-> clampInt(raw[1].minFollowers),
         maxFollowers |-> clampInt(raw[1].maxFollowers) ]

\* app.js 23-26, 36-38: the value is kept as the JSON text encodes it
setJsonCookie(w, name, obj) ==
  [w EXCEPT !.cookies[name] = Some(obj), !.hist.wrote = @ \cup {name}]

\* JSON.stringify of a filter value: null, or the integer
JsonOfInt(v) == IF v = Null THEN Raw("null", 0, 1) ELSE Raw("num", v[1], 1)

\* app.js 498-500
saveFilters(w) ==
  setJsonCookie(w, "stream_filters",
    [ verifiedOnly |-> w.state.filters.verifiedOnly,
      minViewers |-> JsonOfInt(w.state.filters.minViewers),
      maxViewers |-> JsonOfInt(w.state.filters.maxViewers),
      minFollowers |-> JsonOfInt(w.state.filters.minFollowers),
      maxFollowers |-> JsonOfInt(w.state.filters.maxFollowers) ])

\* app.js 289-291
syncIgnoredCookie(w) == setJsonCookie(w, "ignored_streamers", w.state.ignoredUsers)

\* app.js 274-276
ignoredIds(w) == [i \in DOMAIN w.state.ignoredUsers |-> w.state.ignoredUsers[i].id]

IndexOfId(users, id) ==
  IF \E i \in DOMAIN users : users[i].id = id
  THEN CHOOSE i \in DOMAIN users : users[i].id = id /\ \A j \in 1..(i - 1) : users[j].id # id
  ELSE 0

\* app.js 192-197: first entry of each id, a missing name filled from a later one
RECURSIVE MergeIgnored(_)
MergeIgnored(out) ==
  IF out = <<>> THEN <<>>
  ELSE LET init == MergeIgnored(SubSeq(out, 1, Len(out) - 1))
           u == out[Len(out)]
           k == IndexOfId(init, u.id)
       IN IF k = 0 THEN Append(init, u)
          ELSE IF init[k].name = NoName /\ u.name # NoName
               THEN [init EXCEPT ![k].name = u.name]
               ELSE init

\* app.js 178-190: the entry an item of the raw list contributes, if any.  A bare
\* string or number is [bare |-> x]; an object is [id |-> x, name |-> y], y being
\* NoName when the object has no name; an object whose id is blank is dropped
EntryOf(item) ==
  IF "bare" \in DOMAIN item
  THEN <<[id |-> String(item.bare), name |-> NoName]>>
  ELSE IF Trim(String(item.id)) # ""
       THEN <<[id |-> String(item.id),
               name |-> IF item.name \in {NoName, ""} THEN NoName ELSE item.name]>>
       ELSE <<>>

RECURSIVE EntriesOf(_)
EntriesOf(raw) ==
  IF raw = <<>> THEN <<>> ELSE EntryOf(raw[1]) \o EntriesOf(Tail(raw))

\* app.js 176-198; raw is the array the cookie or the URL holds
normalizeIgnored(raw) == MergeIgnored(EntriesOf(raw))

\* upsertIgnoredUser taking the new name whenever one is given
upsertIgnoredUser_Overwrite(w, id, name) ==
  LET k == IndexOfId(w.state.ignoredUsers, id)
  IN IF k # 0
     THEN IF name # NoName
          THEN [w EXCEPT !.state.ignoredUsers[k].name = name]
          ELSE w
     ELSE [w EXCEPT !.state.ignoredUsers = Append(@, [id |-> id, name |-> name])]

\* app.js 278-287
upsertIgnoredUser(w, id, name) ==
  LET k == IndexOfId(w.state.ignoredUsers, id)
  IN IF k # 0
     THEN IF w.state.ignoredUsers[k].name = NoName /\ name # NoName
          THEN [w EXCEPT !.state.ignoredUsers[k].name = name]
          ELSE w
     ELSE [w EXCEPT !.state.ignoredUsers = Append(@, [id |-> id, name |-> name])]

\* all streams of a payload, group after group
RECURSIVE AllStreams(_)
AllStreams(games) ==
  IF games = <<>> THEN <<>> ELSE games[1].streams \o AllStreams(Tail(games))

\* app.js 723-732: fill the names still missing from the payload's streams
RECURSIVE FillNames(_, _)
FillNames(users, streams) ==
  IF streams = <<>> THEN users
  ELSE LET s == streams[1]
           k == IndexOfId(users, s.user_id)
       IN IF k # 0 /\ users[k].name = NoName /\ s.user_name # NoName
          THEN FillNames([users EXCEPT ![k].name = s.user_name], Tail(streams))
          ELSE FillNames(users, Tail(streams))

\* app.js 719-738
backfillIgnoredNamesFromPayload(w, payload) ==
  IF w.state.ignoredUsers = <<>> THEN w
  ELSE LET filled == FillNames(w.state.ignoredUsers, AllStreams(payload.games))
       IN IF filled # w.state.ignoredUsers
          THEN syncIgnoredCookie([w EXCEPT !.state.ignoredUsers = filled])
          ELSE w

----------------------------------------------------------------------------
(* Push channel (app.js 636-661) *)

\* connectSse without lines 637-644: the subscription held is left open
connectSse_NoClose(w) ==
  IF w.state.followedGameIds = <<>> THEN w
  ELSE LET es == [id |-> w.net.opened + 1, game_ids |-> w.state.followedGameIds]
       IN [w EXCEPT !.net.sse = Append(@, es), !.net.opened = @ + 1,
                    !.state.es = Some(es)]

connectSse(w) ==
  LET w1 == IF w.state.es # Null
            THEN [w EXCEPT !.net.sse = Without(@, w.state.es[1]), !.state.es = Null]
            ELSE w
  IN IF w1.state.followedGameIds = <<>> THEN w1
     ELSE LET es == [id |-> w1.net.opened + 1, game_ids |-> w1.state.followedGameIds]
          IN [w1 EXCEPT !.net.sse = Append(@, es), !.net.opened = @ + 1,
                        !.state.es = Some(es)]

----------------------------------------------------------------------------
(* Refresh controller (app.js 672-717) *)

\* app.js 689-692
requireStatus(w) == IF w.state.filters.verifiedOnly THEN "verified" ELSE "any"

\* app.js 702-710: the query string of GET /api/streams, read from the state now
RequestParams(w) ==
  [ game_ids |-> w.state.followedGameIds,
    status |-> requireStatus(w),
    min_viewers |-> w.state.filters.minViewers,
    max_viewers |-> w.state.filters.maxViewers,
    min_followers |-> w.state.filters.minFollowers,
    max_followers |-> w.state.filters.maxFollowers,
    ignored |-> ignoredIds(w) ]

\* app.js 712: fetch(`/api/streams?...`); the request is outstanding until it settles
fetchStreams(w, params) ==
  [w EXCEPT !.net.fetches = Append(@, params),
            !.hist.fetchesIssued = @ + 1,
            !.hist.overlapped = @ \/ (w.net.fetches # <<>>)]

\* _refreshStreamsOnce without lines 696-700: the request is built and sent
\* whatever the followed set holds
_refreshStreamsOnce_AlwaysFetch(w) ==
  LET w0 == [w EXCEPT !.hist.onceRuns = @ + 1]
      w1 == IF w0.env.rootPresent THEN renderFollowedGamesLoading(w0)
            ELSE [w0 EXCEPT !.thrown = TRUE]
  IN IF w1.thrown THEN w1 ELSE fetchStreams(w1, RequestParams(w1))

\* app.js 694-712: _refreshStreamsOnce up to its first await
_refreshStreamsOnce(w) ==
  LET w0 == [w EXCEPT !.hist.onceRuns = @ + 1]
      w1 == IF w0.env.rootPresent THEN renderFollowedGamesLoading(w0)
            ELSE [w0 EXCEPT !.thrown = TRUE]
  IN IF w1.thrown THEN w1
     ELSE IF w1.state.followedGameIds = <<>>
     THEN updateMasonryColumns(setPlaceholder(w1, "Follow a game"), 1)
     ELSE fetchStreams(w1, RequestParams(w1))

\* app.js 672-687.  The body of _refreshStreamsOnce that follows the fetch runs in
\* FetchOk / FetchFail; when no fetch was issued the await settles at once and
\* the finally block runs before any other handler can.
RECURSIVE refreshStreams(_)
RECURSIVE refreshFinally(_)

\* refreshStreams without lines 673-676: every call starts a run of its own
refreshStreams_Uncollapsed(w) ==
  LET wc == [w EXCEPT !.hist.refreshCalls = @ + 1]
      w1 == _refreshStreamsOnce([wc EXCEPT !.state.refreshInFlight = TRUE,
                                           !.hist.callsInFlight = 0])
  IN IF Len(w1.net.fetches) > Len(wc.net.fetches) THEN w1
     ELSE refreshFinally(w1)

refreshStreams(w) ==
  LET wc == [w EXCEPT !.hist.refreshCalls = @ + 1]
  IN IF wc.state.refreshInFlight
     THEN [wc EXCEPT !.state.refreshQueued = TRUE, !.hist.callsInFlight = @ + 1]
     ELSE LET w1 == _refreshStreamsOnce([wc EXCEPT !.state.refreshInFlight = TRUE,
                                                   !.hist.callsInFlight = 0])
          IN IF Len(w1.net.fetches) > Len(wc.net.fetches) THEN w1
             ELSE refreshFinally(w1)

\* the finally block without line 684: the pending flag is cleared and the
\* trailing refresh forgotten
refreshFinally_Dropped(w) ==
  [Caught(w) EXCEPT !.state.refreshInFlight = FALSE, !.state.refreshQueued = FALSE]

\* app.js 680-686; the rejection of the promise nobody awaits changes nothing
refreshFinally(w) ==
  LET w1 == [Caught(w) EXCEPT !.state.refreshInFlight = FALSE]
  IN IF w1.state.refreshQueued
     THEN refreshStreams([w1 EXCEPT !.state.refreshQueued = FALSE])
     ELSE w1

\* app.js 713-717 and 680-686: the response arrived and decoded to `data`
onStreamsResponse(w, data) ==
  LET w1 == [w EXCEPT !.state.lastStreamsPayload = Some(data)]
      w2 == backfillIgnoredNamesFromPayload(w1, data)
  IN refreshFinally(renderFollowedGames(w2))

\* a failure handler that asks for the refresh again before the finally block runs
onStreamsFailure_Retry(w) ==
  refreshFinally([w EXCEPT !.thrown = TRUE, !.state.refreshQueued = TRUE])

\* app.js 712-713 and 680-686: fetch or resp.json() rejected
onStreamsFailure(w) == refreshFinally([w EXCEPT !.thrown = TRUE])

----------------------------------------------------------------------------
(* Confirmation modal (app.js 200-272).  A promise is its index in          *)
(* confirm.promises; `cont` is what the awaiting handler does on true.      *)

Promise(kind, arg, name) ==
  [ status |-> "pending", kind |-> kind, arg |-> arg, name |-> name,
    first |-> "none" ]

\* _confirmResolve(value): settle the promise the resolver belongs to.  Settling a
\* settled promise again does nothing.
resolvePromise(w, p, value) ==
  IF w.confirm.promises[p].status # "pending" THEN w
  ELSE [w EXCEPT !.confirm.promises[p].status = IF value THEN "true" ELSE "false",
                 !.hist.resolved = Append(@, p)]

\* app.js 247-248 and 261-262
resolveCurrent(w, resultBool) ==
  LET w1 == IF w.confirm.resolve # Null
            THEN resolvePromise(w, w.confirm.resolve[1], resultBool) ELSE w
  IN [w1 EXCEPT !.confirm.resolve = Null]

\* app.js 203-239; line 210 returns when the modal, its overlay, its panel, its
\* title or its body element is missing
_openConfirmModal(w) ==
  IF ~(w.env.confirmSurface /\ w.env.confirmLabels) THEN w
  ELSE [clearTimeout(w, "confirmClose") EXCEPT !.confirm.hidden = FALSE]

\* app.js 241-264; lines 246-250 resolve at once when the modal, its overlay or
\* its panel is missing
_closeConfirmModal(w, resultBool) ==
  IF ~w.env.confirmSurface THEN resolveCurrent(w, resultBool)
  ELSE setTimeout(clearTimeout(w, "confirmClose"),
                  Timer("confirmClose", CONFIRM_CLOSE_MS, 0, 0, <<>>, resultBool))

\* app.js 258-263: the close timer's callback
confirmCloseCallback(w, resultBool) ==
  resolveCurrent([w EXCEPT !.confirm.hidden = TRUE], resultBool)

\* app.js 266-272; the new promise is the last of confirm.promises
confirmDialog(w, kind, arg, name) ==
  LET w1 == IF w.confirm.resolve # Null THEN _closeConfirmModal(w, FALSE) ELSE w
      w2 == [w1 EXCEPT !.confirm.promises = Append(@, Promise(kind, arg, name)),
                       !.confirm.resolve = Some(Len(w1.confirm.promises) + 1)]
  IN _openConfirmModal(w2)

----------------------------------------------------------------------------
(* Mutation handlers *)

\* app.js 935-939: the unfollow handler after its confirmation resolved true
unfollowConfirmed(w, gameId) ==
  LET w1 == [w EXCEPT !.state.followedGameIds = Without(@, gameId)]
      w2 == setJsonCookie(w1, "followed_games", w1.state.followedGameIds)
  IN refreshStreams(connectSse(w2))

\* app.js 835-838: the ignore handler after its confirmation resolved true
ignoreConfirmed(w, uid, name) ==
  refreshStreams(syncIgnoredCookie(upsertIgnoredUser(w, uid, name)))

\* a handler that goes on whatever its confirmation resolved to
resume_Ungated(w, p) ==
  LET pr == w.confirm.promises[p]
  IN IF pr.kind = "unfollow" THEN unfollowConfirmed(w, pr.arg)
     ELSE ignoreConfirmed(w, pr.arg, pr.name)

\* the handler awaiting promise p resumes: `if (!ok) return;` and the rest
resume(w, p) ==
  LET pr == w.confirm.promises[p]
  IN IF pr.status # "true" THEN w
     ELSE IF pr.kind = "unfollow" THEN unfollowConfirmed(w, pr.arg)
     ELSE ignoreConfirmed(w, pr.arg, pr.name)

\* the microtasks queued by the promises settled in this step, in order
RECURSIVE resumeAll(_, _)
resumeAll(w, ps) ==
  IF ps = <<>> THEN w ELSE resumeAll(Caught(resume(w, ps[1])), Tail(ps))

RunMicrotasks(w) == resumeAll(w, w.hist.resolved)

\* app.js 581-590: click on a search result's follow button
followClick(w, gameId) ==
  IF Contains(w.state.followedGameIds, gameId) THEN w
  ELSE LET w1 == [w EXCEPT !.state.followedGameIds = unique(Append(@, gameId))]
           w2 == setJsonCookie(w1, "followed_games", w1.state.followedGameIds)
           w3 == renderFollowedGames(connectSse(w2))
       IN IF w3.thrown THEN w3 ELSE refreshStreams(w3)

\* app.js 931-934: click on a card's unfollow button, up to the await
unfollowClick(w, card) ==
  confirmDialog(w, "unfollow", w.dom.nodes[card].key, NoName)

\* app.js 827-834: click on a row's ignore button, up to the await
ignoreClick(w, row) ==
  LET s == w.dom.nodes[row].data
  IN IF Contains(ignoredIds(w), s.user_id) THEN w
     ELSE confirmDialog(w, "ignore", s.user_id, s.user_name)

\* app.js 617-622: click on an ignored channel's remove button
unignoreClick(w, uid) ==
  LET w1 == [w EXCEPT !.state.ignoredUsers = SelectSeq(@, LAMBDA x : x.id # uid)]
  IN refreshStreams(syncIgnoredCookie(w1))

\* app.js 442-447
clearIgnoredClick(w) ==
  refreshStreams(syncIgnoredCookie([w EXCEPT !.state.ignoredUsers = <<>>]))

----------------------------------------------------------------------------
(* Filters (app.js 510-538) *)

\* scheduleFilterRefresh without line 512: the earlier timer is left to fire
scheduleFilterRefresh_NoClear(w) ==
  setTimeout(w, Timer("filterDebounce", FILTER_DEBOUNCE_MS, 0, 0, <<>>, FALSE))

\* app.js 511-517
scheduleFilterRefresh(w) ==
  setTimeout(clearTimeout(w, "filterDebounce"),
             Timer("filterDebounce", FILTER_DEBOUNCE_MS, 0, 0, <<>>, FALSE))

\* app.js 513-516: the debounce timer's callback
filterDebounceCallback(w) == refreshStreams(w)

\* the change handler with lines 521 and 523 exchanged: the refresh starts
\* before the state holds the new value
verifiedOnlyChange_RefreshFirst(w, checked) ==
  saveFilters([refreshStreams(w) EXCEPT !.state.filters.verifiedOnly = checked])

\* app.js 520-524
verifiedOnlyChange(w, checked) ==
  refreshStreams(saveFilters([w EXCEPT !.state.filters.verifiedOnly = checked]))

\* app.js 527-531
numberInput(w, key, value) ==
  LET w1 == [w EXCEPT !.state.filters[key] = clampInt(value),
                      !.hist.sinceEdit = 0, !.hist.editValue = clampInt(value),
                      !.hist.editKey = key,
                      !.hist.edits = IF Pending(w, "filterDebounce") THEN @ + 1 ELSE 1]
  IN scheduleFilterRefresh(saveFilters(w1))

----------------------------------------------------------------------------
(* Page load (app.js 293-348) *)

InitialState ==
  [ followedGameIds |-> <<>>, ignoredUsers |-> <<>>, filters |-> DefaultFilters,
    lastStreamsPayload |-> Null, es |-> Null,
    refreshInFlight |-> FALSE, refreshQueued |-> FALSE ]

InitialHist ==
  [ step |-> "boot", refreshCalls |-> 0, onceRuns |-> 0, fetchesIssued |-> 0,
    overlapped |-> FALSE, callsInFlight |-> 0, collapsed |-> 0,
    resolved |-> <<>>, sinceEdit |-> -1, editKey |-> "minViewers",
    editValue |-> Null, edits |-> 0,
    scenario |-> "none", scenarioVersion |-> 0,
    prevPayload |-> Null, prevShown |-> Null, shown |-> Null,
    before |-> <<>>, arg |-> Null, boot |-> Null, wrote |-> {},
    layout |-> <<>>, measured |-> 0, layoutPending |-> FALSE, sinceResize |-> -1,
    resizes |-> 0, used |-> 0, gen |-> <<>> ]

\* the page before boot() runs, with the cookies and the environment it finds
Blank(cookieJar, environment) ==
  [ state |-> InitialState, cookies |-> cookieJar,
    dom |-> [placeholder |-> "none", children |-> <<>>, nodes |-> <<>>,
             columnCount |-> 0, frames |-> <<>>, masonryBound |-> FALSE,
             resizeListeners |-> 0],
    timers |-> <<>>,
    net |-> [fetches |-> <<>>, sse |-> <<>>, opened |-> 0],
    confirm |-> [resolve |-> Null, promises |-> <<>>, hidden |-> TRUE],
    env |-> environment, hist |-> InitialHist, thrown |-> FALSE ]

\* app.js 40-48
getJsonCookie(w, name, fallback) ==
  IF w.cookies[name] = Null THEN fallback ELSE w.cookies[name][1]

\* app.js 309-315; href holds the query parameters of the page's address
readUrlParams(href) ==
  [games |-> parseCsvParam(href.games), ignored |-> parseCsvParam(href.ignored)]

\* boot without lines 329-330: the lists of the link are not persisted
boot_NotPersisted(w, url) ==
  LET cookieGames == getJsonCookie(w, "followed_games", <<>>)
      cookieIgnored == getJsonCookie(w, "ignored_streamers", <<>>)
      urlIgnored == [i \in DOMAIN url.ignored |-> [bare |-> url.ignored[i]]]
      chosen == IF url.games # <<>> THEN url.games ELSE cookieGames
      w1 == [w EXCEPT
               !.state.followedGameIds =
                  unique([i \in DOMAIN chosen |-> String(chosen[i])]),
               !.state.ignoredUsers =
                  normalizeIgnored(IF url.ignored # <<>> THEN urlIgnored ELSE cookieIgnored)]
      w4 == [w1 EXCEPT !.state.filters = normalizeFilters(w1.cookies.stream_filters)]
  IN Caught(refreshStreams(connectSse(bindMasonryResize(w4))))

\* app.js 317-348; url is readUrlParams(): the games and ignored ids of the link
boot(w, url) ==
  LET cookieGames == getJsonCookie(w, "followed_games", <<>>)
      cookieIgnored == getJsonCookie(w, "ignored_streamers", <<>>)
      urlIgnored == [i \in DOMAIN url.ignored |-> [bare |-> url.ignored[i]]]
      chosen == IF url.games # <<>> THEN url.games ELSE cookieGames
      w1 == [w EXCEPT
               !.state.followedGameIds =
                  unique([i \in DOMAIN chosen |-> String(chosen[i])]),
               !.state.ignoredUsers =
                  normalizeIgnored(IF url.ignored # <<>> THEN urlIgnored ELSE cookieIgnored)]
      w2 == IF url.games # <<>>
            THEN setJsonCookie(w1, "followed_games", w1.state.followedGameIds) ELSE w1
      w3 == IF url.ignored # <<>> THEN syncIgnoredCookie(w2) ELSE w2
      w4 == [w3 EXCEPT !.state.filters = normalizeFilters(w3.cookies.stream_filters)]
  IN Caught(refreshStreams(connectSse(bindMasonryResize(w4))))

----------------------------------------------------------------------------
(* Steps *)

\* a handler starts: what the previous step did is forgotten
Begin(name) ==
  [World EXCEPT !.hist.step = name, !.hist.refreshCalls = 0, !.hist.onceRuns = 0,
                !.hist.fetchesIssued = 0, !.hist.collapsed = 0,
                !.hist.resolved = <<>>, !.hist.prevPayload = Null,
                !.hist.prevShown = Null, !.hist.wrote = {},
                !.hist.layout = <<>>, !.hist.measured = 0, !.hist.used = 0,
                !.hist.gen = <<>>]

\* the handler returned (or threw): its world is the next state
Apply(w) ==
  /\ state' = w.state
  /\ cookies' = w.cookies
  /\ dom' = w.dom
  /\ timers' = w.timers
  /\ net' = w.net
  /\ confirm' = w.confirm
  /\ env' = w.env
  /\ hist' = w.hist

(* History of the reconciliations, for the properties.                     *)

\* the element showing each game, and each stream of each game, of a payload:
\* what a lookup by id finds in the document, Null where it finds nothing
Shown(w, payload) ==
  LET cards == MapOf(w, w.dom.children, GameIds)
  IN [g \in GameIds |->
        [ card |-> cards[g],
          rows |-> IF cards[g] = Null THEN NoMap
                   ELSE MapOf(w, w.dom.nodes[cards[g][1]].list, StreamIds) ]]

Group(payload, g) ==
  LET m == SelectSeq(payload.games, LAMBDA x : x.game.id = g)
  IN IF m = <<>> THEN Null ELSE Some(m[1])

StreamKeys(l) == {l[i].id : i \in DOMAIN l}

\* the stream and the game the reappearance scenario follows
S1 == "a"
G1 == "g1"

\* G1's card shows a row for S1 that is not exiting
LiveS1(w) ==
  LET card == MapOf(w, w.dom.children, GameIds)[G1]
  IN /\ card # Null
     /\ \E n \in Range(w.dom.nodes[card[1]].list) :
          w.dom.nodes[n].key = S1 /\ ~w.dom.nodes[n].exiting

\* where the run stands in "A lists S1; B drops it, starting its exit; C lists it
\* again before B's deferred pass fires"
ScenarioAfter(before, data) ==
  LET g == Group(data, G1)
  IN IF g = Null THEN "none"
     ELSE IF S1 \in StreamKeys(g[1].streams)
          THEN IF before.hist.scenario = "AB" THEN "ABC" ELSE "A"
          ELSE IF before.hist.scenario = "A" /\ LiveS1(before) THEN "AB" ELSE "none"

\* record what this reconciliation was given and what it left on screen
Reconciled(w, before, data) ==
  LET card == MapOf(w, w.dom.children, GameIds)[G1]
  IN [w EXCEPT !.hist.prevPayload = before.state.lastStreamsPayload,
               !.hist.prevShown = before.hist.shown,
               !.hist.shown = Some(Shown(w, data)),
               !.hist.scenario = ScenarioAfter(before, data),
               !.hist.scenarioVersion =
                  IF card = Null THEN 0 ELSE w.dom.nodes[card[1]].version]

UserEvent == budget > 0 /\ budget' = budget - 1

Attached(card) == Contains(dom.children, card)

AttachedRow(row) ==
  \E card \in DOMAIN dom.nodes : Attached(card) /\ Contains(dom.nodes[card].list, row)

FollowClick(g) ==
  /\ UserEvent
  /\ ~Contains(state.followedGameIds, g)
  /\ LET w0 == Begin("follow")
         w1 == followClick(w0, g)
     IN Apply(IF state.lastStreamsPayload = Null THEN w1
              ELSE Reconciled(w1, w0, state.lastStreamsPayload[1]))

UnfollowClick(card) ==
  /\ UserEvent
  /\ Attached(card)
  /\ Apply(RunMicrotasks(unfollowClick(Begin("unfollowClick"), card)))

IgnoreClick(row) ==
  /\ UserEvent
  /\ AttachedRow(row)
  /\ ~Contains(ignoredIds(World), dom.nodes[row].data.user_id)
  /\ Apply(RunMicrotasks(ignoreClick(Begin("ignoreClick"), row)))

UnignoreClick(uid) ==
  /\ UserEvent
  /\ Contains(ignoredIds(World), uid)
  /\ Apply(unignoreClick(Begin("unignore"), uid))

ClearIgnoredClick ==
  /\ UserEvent
  /\ Apply(clearIgnoredClick(Begin("clearIgnored")))

VerifiedOnlyChange ==
  /\ UserEvent
  /\ Apply(verifiedOnlyChange(Begin("verifiedOnlyChange"), ~state.filters.verifiedOnly))

NumberInput(key, value) ==
  /\ UserEvent
  /\ Apply(numberInput(Begin("numberInput"), key, value))

\* app.js 652-655: a game_updated event on an open EventSource
Push ==
  /\ UserEvent
  /\ net.sse # <<>>
  /\ Apply(refreshStreams(Begin("push")))

\* the prompt the user is looking at notes the first thing the user did to it
Activate(w, what) ==
  IF w.confirm.resolve = Null THEN w
  ELSE LET p == w.confirm.resolve[1]
       IN [w EXCEPT !.confirm.promises[p].first = IF @ = "none" THEN what ELSE @]

\* app.js 418
ConfirmOk ==
  /\ UserEvent
  /\ ~confirm.hidden
  /\ Apply(RunMicrotasks(_closeConfirmModal(Activate(Begin("confirmOk"), "accept"), TRUE)))

\* app.js 419-423 (cancel button, pointerdown outside the panel) and 425-429 (Escape)
ConfirmDismiss(via) ==
  /\ UserEvent
  /\ IF via = "escape" THEN confirm.resolve # Null ELSE ~confirm.hidden
  /\ Apply(RunMicrotasks(
             _closeConfirmModal(Activate(Begin("confirmDismiss"), "dismiss"), FALSE)))

\* the response of the outstanding request i arrived
FetchOk(i, data) ==
  /\ i \in DOMAIN net.fetches
  /\ LET w0 == [Begin("fetchOk") EXCEPT
                  !.net.fetches = SubSeq(@, 1, i - 1) \o SubSeq(@, i + 1, Len(@)),
                  !.hist.collapsed = hist.callsInFlight]
     IN Apply(Reconciled(onStreamsResponse(w0, data), w0, data))
  /\ UNCHANGED budget

\* the outstanding request i failed
FetchFail(i) ==
  /\ UNCHANGED budget
  /\ i \in DOMAIN net.fetches
  /\ LET w0 == [Begin("fetchFail") EXCEPT
                  !.net.fetches = SubSeq(@, 1, i - 1) \o SubSeq(@, i + 1, Len(@)),
                  !.hist.collapsed = hist.callsInFlight]
     IN Apply(onStreamsFailure(w0))

\* the timer whose callback runs next: the earliest deadline, then the oldest
NextTimer ==
  CHOOSE i \in DOMAIN timers :
    /\ timers[i].due = 0
    /\ \A j \in 1..(i - 1) : timers[j].due # 0

TimerDue(kind) ==
  /\ \E i \in DOMAIN timers : timers[i].due = 0
  /\ timers[NextTimer].kind = kind

\* the world as the callback of NextTimer finds it: its timer is no longer pending
Fired(name) ==
  [Begin(name) EXCEPT
     !.timers = SubSeq(@, 1, NextTimer - 1) \o SubSeq(@, NextTimer + 1, Len(@))]

\* app.js 781
ExitTimer ==
  /\ TimerDue("exit")
  /\ Apply(removeEl(Fired("exit"), timers[NextTimer].node))
  /\ UNCHANGED budget

\* app.js 1002-1023
DeferredTimer ==
  /\ TimerDue("deferred")
  /\ LET t == timers[NextTimer]
         w0 == Fired("deferred")
         passOfB == /\ hist.scenario = "AB"
                    /\ MapOf(World, dom.children, GameIds)[G1] = Some(t.node)
                    /\ t.version = hist.scenarioVersion
     IN Apply(DeferredPass([w0 EXCEPT !.hist.scenario = IF passOfB THEN "none" ELSE @],
                           t.node, t.version, t.streams))
  /\ UNCHANGED budget

\* app.js 513-516
FilterDebounceTimer ==
  /\ TimerDue("filterDebounce")
  /\ Apply(filterDebounceCallback(Fired("filterDebounce")))
  /\ UNCHANGED budget

\* app.js 258-263
ConfirmCloseTimer ==
  /\ TimerDue("confirmClose")
  /\ Apply(RunMicrotasks(
             confirmCloseCallback(Fired("confirmClose"), timers[NextTimer].result)))
  /\ UNCHANGED budget

\* the browser renders a frame; the layout it has made shows `used` columns
Frame ==
  /\ dom.frames # <<>>
  /\ \E used \in 1..Max(1, Min(ChildCount(World), dom.columnCount)) :
       Apply(RunFrame([Begin("frame") EXCEPT !.dom.frames = <<>>,
                                            !.hist.used = used], dom.frames, used))
  /\ UNCHANGED budget

\* the window was resized
Resize ==
  /\ UserEvent
  /\ Apply(dispatchResize([Begin("resize") EXCEPT
                             !.hist.sinceResize = 0,
                             !.hist.resizes = IF Pending(World, "resize") THEN @ + 1 ELSE 1],
                          dom.resizeListeners))

\* app.js 150-157; the exception of a timer callback is reported and dropped
ResizeTimer ==
  /\ TimerDue("resize")
  /\ Apply(Caught(resizeCallback(Fired("resizeTimer"))))
  /\ UNCHANGED budget

\* bindMasonryResize() called once more
Rebind ==
  /\ UserEvent
  /\ Apply(bindMasonryResize(Begin("bind")))

\* time passes: by `quantum` ms, or up to the next deadline when that is nearer;
\* a frame that is due is rendered first
Advance(quantum) ==
  /\ timers # <<>>
  /\ dom.frames = <<>>
  /\ \A i \in DOMAIN timers : timers[i].due > 0
  /\ LET d == Min(quantum, SeqMin([i \in DOMAIN timers |-> timers[i].due]))
     IN /\ timers' = [i \in DOMAIN timers |-> [timers[i] EXCEPT !.due = @ - d]]
        /\ hist' = [hist EXCEPT !.step = "advance",
                      !.sinceEdit = IF @ < 0 THEN @ ELSE Min(FILTER_DEBOUNCE_MS, @ + d),
                      !.sinceResize = IF @ < 0 THEN @ ELSE Min(RESIZE_DEBOUNCE_MS, @ + d)]
  /\ UNCHANGED <<state, cookies, dom, net, confirm, env, budget>>

----------------------------------------------------------------------------
(* The page in use: every handler, a server that answers each request with  *)
(* one group per requested game.                                            *)

\* user and server events of one run
MaxEvents == 3

\* the longest step of time between two events, in ms
Quantum == 125

CONTAINER_WIDTH == 700

Environments ==
  { [globalsDefined |-> b, clientWidth |-> CONTAINER_WIDTH, rootPresent |-> TRUE,
     confirmSurface |-> TRUE, confirmLabels |-> TRUE] : b \in BOOLEAN }

NoCookies == [followed_games |-> Null, ignored_streamers |-> Null, stream_filters |-> Null]

NoUrl == [games |-> <<>>, ignored |-> <<>>]

StreamA == CHOOSE s \in StreamPool : s.id = "a"

\* what the field of a numeric filter can hold after an edit
EditValues == {Raw("empty", 0, 1), Raw("num", 10, 1)}

\* /api/streams answers with one group per requested game
Responses(req) ==
  { [games |-> [i \in DOMAIN req.game_ids |-> GameGroup(req.game_ids[i], l)]] :
      l \in {<<>>, <<StreamA>>} }

Start(w) ==
  /\ state = w.state
  /\ cookies = w.cookies
  /\ dom = w.dom
  /\ timers = w.timers
  /\ net = w.net
  /\ confirm = w.confirm
  /\ env = w.env
  /\ hist = w.hist

\* a channel ignored on an earlier visit, its name not yet known
IgnoredBefore == <<[id |-> "uc", name |-> NoName]>>

Init ==
  /\ budget = MaxEvents
  /\ \E e \in Environments, games \in {<<>>, <<"g1">>} :
       Start(boot(Blank([NoCookies EXCEPT !.followed_games = Some(games),
                                          !.ignored_streamers = Some(IgnoredBefore)],
                        e), NoUrl))

Next ==
  \/ \E g \in GameIds : FollowClick(g)
  \/ \E card \in DOMAIN dom.nodes : UnfollowClick(card)
  \/ \E row \in DOMAIN dom.nodes : IgnoreClick(row)
  \/ \E uid \in UserIds : UnignoreClick(uid)
  \/ ClearIgnoredClick
  \/ VerifiedOnlyChange
  \/ \E key \in NumericKeys, value \in EditValues : NumberInput(key, value)
  \/ Push
  \/ ConfirmOk
  \/ \E via \in {"cancel", "backdrop", "escape"} : ConfirmDismiss(via)
  \/ \E i \in DOMAIN net.fetches : \E data \in Responses(net.fetches[i]) : FetchOk(i, data)
  \/ \E i \in DOMAIN net.fetches : FetchFail(i)
  \/ ExitTimer
  \/ DeferredTimer
  \/ FilterDebounceTimer
  \/ ConfirmCloseTimer
  \/ Frame
  \/ Advance(Quantum)

Spec == Init /\ [][Next]_vars

----------------------------------------------------------------------------
(* The confirmation modal in use: cards and rows on screen, the user        *)
(* clicking unfollow and ignore buttons and answering the prompts.          *)

\* clicks and key presses of one run
MaxClicks == 4

InitConfirm ==
  /\ budget = MaxClicks
  /\ \E e \in Environments :
       Start(boot(Blank([NoCookies EXCEPT !.followed_games = Some(<<"g1">>)], e), NoUrl))

NextConfirm ==
  \/ \E card \in DOMAIN dom.nodes : UnfollowClick(card)
  \/ \E row \in DOMAIN dom.nodes : IgnoreClick(row)
  \/ ConfirmOk
  \/ \E via \in {"cancel", "backdrop", "escape"} : ConfirmDismiss(via)
  \/ \E i \in DOMAIN net.fetches : \E data \in Responses(net.fetches[i]) : FetchOk(i, data)
  \/ ExitTimer
  \/ DeferredTimer
  \/ ConfirmCloseTimer
  \/ Frame
  \/ Advance(Quantum)

SpecConfirm == InitConfirm /\ [][NextConfirm]_vars

----------------------------------------------------------------------------
(* Reconciliation under changing payloads: the followed games stay, pushes  *)
(* trigger refreshes, and the server's answer varies freely.                *)

\* push notifications of one run
MaxPushes == 3

\* the longest step of time between two events, in ms
ReconQuantum == 140

\* one game with every stream list, and the ways the second game comes and goes
ReconPayloads ==
  { [games |-> <<GameGroup("g1", l)>>] : l \in StreamLists }
  \cup
  { [games |-> <<>>],
    [games |-> <<GameGroup("g2", <<>>)>>],
    [games |-> <<GameGroup("g1", <<StreamA>>), GameGroup("g2", <<>>)>>],
    [games |-> <<GameGroup("g2", <<>>), GameGroup("g1", <<StreamA>>)>>] }

\* the page as served alone: nothing defines the globals line 120 reads (the
\* reconciliation is complete before that line is reached, either way)
Standalone == CHOOSE e \in Environments : ~e.globalsDefined

InitRecon ==
  /\ budget = MaxPushes
  /\ Start(boot(Blank([NoCookies EXCEPT !.followed_games = Some(<<"g1", "g2">>)],
                      Standalone), NoUrl))

NextRecon ==
  \/ Push
  \/ \E i \in DOMAIN net.fetches : \E data \in ReconPayloads : FetchOk(i, data)
  \/ ExitTimer
  \/ DeferredTimer
  \/ Advance(ReconQuantum)

SpecRecon == InitRecon /\ [][NextRecon]_vars

----------------------------------------------------------------------------
(* The ignored list under its three merging operations: normalizeIgnored on *)
(* the raw list a cookie holds, then upsertIgnoredUser and the backfill     *)
(* applied to whatever list that gave.                                      *)

\* the page after boot() from the cookies `jar` and the address `href`
Booted(jar, e, href) ==
  [boot(Blank(jar, e), readUrlParams(href)) EXCEPT
     !.hist.boot = Some([href |-> href, cookies |-> jar])]

NoHref == [games |-> Null, ignored |-> Null, minViewers |-> Null]

\* applications of upsertIgnoredUser and of the backfill in one run
MaxMerges == 2

\* the longest raw list of an ignored_streamers cookie
MaxRaw == 3

MergeNames == {NoName, "A", "Z"}

\* what an item of the raw list can be: a bare id, or an object whose id is a
\* string, a number or blank and whose name is absent, empty or a text
RawItems ==
  {[bare |-> "ua"]}
  \cup { [id |-> i, name |-> n] : i \in {"ua", "#ua", "ub", " "}, n \in MergeNames \cup {""} }

RawLists == UNION { [1..n -> RawItems] : n \in 0..MaxRaw }

MergePayloads == { [games |-> <<GameGroup("g1", l)>>] : l \in StreamLists }

UpsertIgnored(id, name) ==
  /\ UserEvent
  /\ Apply([upsertIgnoredUser(Begin("upsert"), id, name) EXCEPT
             !.hist.before = state.ignoredUsers,
             !.hist.arg = Some([id |-> id, name |-> name])])

Backfill(payload) ==
  /\ UserEvent
  /\ Apply([backfillIgnoredNamesFromPayload(Begin("backfill"), payload) EXCEPT
             !.hist.before = state.ignoredUsers])

InitMerge ==
  /\ budget = MaxMerges
  /\ \E raw \in RawLists :
       Start(Booted([NoCookies EXCEPT !.ignored_streamers = Some(raw)], Standalone, NoHref))

NextMerge ==
  \/ \E id \in {"ua", "ub"}, name \in MergeNames : UpsertIgnored(id, name)
  \/ \E payload \in MergePayloads : Backfill(payload)

SpecMerge == InitMerge /\ [][NextMerge]_vars

----------------------------------------------------------------------------
(* The preference lists in use: the page opened from a link and a cookie    *)
(* jar, then games followed and unfollowed, channels ignored and released,  *)
(* responses rendered and names backfilled.                                 *)

\* clicks of one run
MaxPrefEvents == 3

\* the longest step of time between two events, in ms
PrefQuantum == 400

\* followed_games cookies: none, one id as a string and as a number, two ids
PrefGameCookies == {Null, Some(<<"g1", "#g1">>), Some(<<"g2", "g1">>)}

\* ignored_streamers cookies: none, one id twice with and without a name, a
\* numeric id without a name next to a named entry
PrefIgnoredCookies ==
  { Null,
    Some(<<[id |-> "ua", name |-> "Z"], [bare |-> "ua"]>>),
    Some(<<[id |-> "#ua", name |-> NoName], [id |-> "ub", name |-> "Z"]>>) }

PrefFilterCookies ==
  { Null,
    Some([ verifiedOnly |-> TRUE, minViewers |-> Raw("num", 10, 1),
           maxViewers |-> Raw("null", 0, 1), minFollowers |-> Raw("null", 0, 1),
           maxFollowers |-> Raw("null", 0, 1) ]) }

\* addresses: each list parameter absent, empty, or with a repeated id; the
\* filter parameter a shared link of an older page could carry
PrefHrefs ==
  { [games |-> g, ignored |-> i, minViewers |-> m] :
      g \in {Null, Some(<<"">>), Some(<<"g1", " g1">>), Some(<<"g2", "g1">>)},
      i \in {Null, Some(<<"ua", "ua">>), Some(<<"ub">>)},
      m \in {Null, Some(Raw("num", 5, 1))} }

InitPrefs ==
  /\ budget = MaxPrefEvents
  /\ \E g \in PrefGameCookies, i \in PrefIgnoredCookies, f \in PrefFilterCookies,
        href \in PrefHrefs :
       Start(Booted([followed_games |-> g, ignored_streamers |-> i, stream_filters |-> f],
                    Standalone, href))

NextPrefs ==
  \/ \E g \in GameIds : FollowClick(g)
  \/ \E card \in DOMAIN dom.nodes : UnfollowClick(card)
  \/ \E row \in DOMAIN dom.nodes : IgnoreClick(row)
  \/ \E uid \in UserIds : UnignoreClick(uid)
  \/ ClearIgnoredClick
  \/ ConfirmOk
  \/ \E i \in DOMAIN net.fetches : \E data \in Responses(net.fetches[i]) : FetchOk(i, data)
  \/ ExitTimer
  \/ DeferredTimer
  \/ ConfirmCloseTimer
  \/ Advance(PrefQuantum)

SpecPrefs == InitPrefs /\ [][NextPrefs]_vars

----------------------------------------------------------------------------
(* The column layout: payloads with zero to two games, the window resized,  *)
(* frames rendered at any moment between the events.                        *)

\* pushes, resize events and extra bindMasonryResize() calls of one run
MaxLayoutEvents == 4

\* the longest step of time between two events, in ms
LayoutQuantum == 50

\* container widths in px: room for one, two and three columns
LayoutWidths == {0, 700, 1100}

LayoutEnvironments ==
  { [globalsDefined |-> b, clientWidth |-> wd, rootPresent |-> TRUE,
     confirmSurface |-> TRUE, confirmLabels |-> TRUE] : b \in BOOLEAN, wd \in LayoutWidths }

LayoutPayloads ==
  { [games |-> <<>>],
    [games |-> <<GameGroup("g1", <<>>)>>],
    [games |-> <<GameGroup("g1", <<>>), GameGroup("g2", <<>>)>>] }

InitLayout ==
  /\ budget = MaxLayoutEvents
  /\ \E e \in LayoutEnvironments :
       Start(boot(Blank([NoCookies EXCEPT !.followed_games = Some(<<"g1", "g2">>)], e),
                  NoUrl))

NextLayout ==
  \/ Push
  \/ \E i \in DOMAIN net.fetches : \E data \in LayoutPayloads : FetchOk(i, data)
  \/ Resize
  \/ ResizeTimer
  \/ Rebind
  \/ Frame
  \/ ExitTimer
  \/ Advance(LayoutQuantum)

SpecLayout == InitLayout /\ [][NextLayout]_vars

----------------------------------------------------------------------------
(* The page without its confirmation modal: the modal, its overlay and its  *)
(* panel are missing from the document, or only its title and body are.     *)
(* The buttons of the prompt cannot be reached; the Escape key can.         *)

\* clicks, key presses and pushes of one run
MaxBareEvents == 4

BareEnvironments ==
  { [globalsDefined |-> TRUE, clientWidth |-> CONTAINER_WIDTH, rootPresent |-> TRUE,
     confirmSurface |-> p[1], confirmLabels |-> p[2]] :
      p \in {<<FALSE, FALSE>>, <<FALSE, TRUE>>, <<TRUE, FALSE>>} }

InitBare ==
  /\ budget = MaxBareEvents
  /\ \E e \in BareEnvironments :
       Start(boot(Blank([NoCookies EXCEPT !.followed_games = Some(<<"g1">>)], e), NoUrl))

NextBare ==
  \/ \E card \in DOMAIN dom.nodes : UnfollowClick(card)
  \/ \E row \in DOMAIN dom.nodes : IgnoreClick(row)
  \/ \E via \in {"cancel", "backdrop", "escape"} : ConfirmDismiss(via)
  \/ Push
  \/ \E i \in DOMAIN net.fetches : \E data \in Responses(net.fetches[i]) : FetchOk(i, data)
  \/ ExitTimer
  \/ DeferredTimer
  \/ ConfirmCloseTimer
  \/ Frame
  \/ Advance(Quantum)

SpecBare == InitBare /\ [][NextBare]_vars

----------------------------------------------------------------------------
(* The refresh controller with a server that answers: every outstanding     *)
(* request is settled, sooner or later, by a response or by a failure.      *)

\* pushes, clicks and filter changes of one run
MaxLiveEvents == 3

\* an outstanding request settles
Settle ==
  \/ \E i \in DOMAIN net.fetches : FetchFail(i)
  \/ \E i \in DOMAIN net.fetches : \E data \in Responses(net.fetches[i]) : FetchOk(i, data)

InitLive ==
  /\ budget = MaxLiveEvents
  /\ Start(boot(Blank([NoCookies EXCEPT !.followed_games = Some(<<"g1">>)], Standalone),
                NoUrl))

NextLive ==
  \/ Push
  \/ VerifiedOnlyChange
  \/ ClearIgnoredClick
  \/ \E card \in DOMAIN dom.nodes : UnfollowClick(card)
  \/ ConfirmOk
  \/ ConfirmCloseTimer
  \/ Settle
  \/ ExitTimer
  \/ DeferredTimer
  \/ Advance(Quantum)

SpecLive == InitLive /\ [][NextLive]_vars /\ WF_vars(Settle)

----------------------------------------------------------------------------
(* The numeric filters: the page opened with a stream_filters cookie whose  *)
(* fields hold any JSON scalar, then the four fields edited.                *)

\* edits of one run
MaxTyped == 2

\* texts and JSON scalars: "", null, an absent field, "  ", "abc", Infinity,
\* 0, 10, 3.5 and -3.5
RawValues ==
  { Raw(t, 0, 1) : t \in {"empty", "null", "undefined", "blank", "nan", "inf"} }
  \cup { Raw("num", 0, 1), Raw("num", 10, 1), Raw("num", 7, 2), Raw("num", -7, 2) }

\* a text field holds a string: never null, never an absent value
FieldValues == { x \in RawValues : x.tag \notin {"null", "undefined"} }

\* stream_filters cookies: none, or an object with one field at any value
ClampCookies ==
  { Null }
  \cup { Some([ [ k \in NumericKeys |-> Raw("null", 0, 1) ] EXCEPT ![key] = x ]
              @@ [ verifiedOnly |-> FALSE ]) :
           key \in NumericKeys, x \in RawValues }

\* app.js 527-531 with the field's text `value`
TypeNumber(key, value) ==
  /\ UserEvent
  /\ Apply([numberInput(Begin("numberInput"), key, value) EXCEPT
             !.hist.arg = Some([key |-> key, raw |-> value])])

InitClamp ==
  /\ budget = MaxTyped
  /\ \E f \in ClampCookies :
       Start(Booted([NoCookies EXCEPT !.stream_filters = f], Standalone, NoHref))

NextClamp ==
  \/ \E key \in NumericKeys, value \in FieldValues : TypeNumber(key, value)
  \/ FilterDebounceTimer
  \/ Advance(Quantum)

SpecClamp == InitClamp /\ [][NextClamp]_vars

----------------------------------------------------------------------------
(* Properties of the refresh controller *)

\* the step that has just been taken settled the outstanding request
RequestSettled == hist.step \in {"fetchOk", "fetchFail"}

\* C1 (as claimed): Collapse - N >= 1 calls to refreshStreams() made while one
\* refresh is executing result in exactly one additional /api/streams call,
\* issued only after the first one has completed.
C1_AsClaimed ==
  /\ ~hist.overlapped
  /\ (RequestSettled /\ hist.collapsed >= 1) =>
       hist.fetchesIssued = 1 /\ Len(net.fetches) = 1

\* C1 (amended): N >= 1 calls to refreshStreams() made while one refresh is
\* executing result in exactly one additional run of _refreshStreamsOnce, started
\* when the first one has completed; that run issues exactly one /api/streams
\* call, or none when the followed set is empty as it starts.  With N = 0 there
\* is no additional run.  No call is ever issued while another is outstanding.
C1_Collapse ==
  /\ ~hist.overlapped
  /\ RequestSettled =>
       /\ hist.onceRuns = (IF hist.collapsed >= 1 THEN 1 ELSE 0)
       /\ hist.fetchesIssued =
            (IF hist.collapsed >= 1 /\ state.followedGameIds # <<>> THEN 1 ELSE 0)
       /\ Len(net.fetches) = hist.fetchesIssued

\* two calls were made while a request was outstanding; it settled and one call followed
C1_Witness ==
  /\ RequestSettled
  /\ hist.collapsed >= 2
  /\ hist.onceRuns = 1
  /\ hist.fetchesIssued = 1

\* C2: in every reachable state at most one /api/streams fetch is outstanding.
C2_OneOutstanding == Len(net.fetches) <= 1

\* a request is outstanding and two more refreshes were asked for meanwhile
C2_Witness ==
  /\ Len(net.fetches) = 1
  /\ state.refreshQueued
  /\ hist.callsInFlight >= 2

\* C3: the parameters of every /api/streams call are the followed set, the status,
\* the four numeric filters and the ignored ids as the state holds them when the
\* call starts; the state does not change in the rest of the step that issues the
\* call, so the newest outstanding request is compared with the state after it.
C3_ParamsAtStart ==
  hist.fetchesIssued >= 1 =>
    /\ net.fetches # <<>>
    /\ net.fetches[Len(net.fetches)] = RequestParams(World)

\* the only event of the run switched verifiedOnly on while the boot request was
\* outstanding, and the follow-up call asks for verified streams
C3_Witness ==
  /\ hist.step = "fetchOk"
  /\ hist.collapsed >= 1
  /\ hist.fetchesIssued = 1
  /\ budget = MaxEvents - 1
  /\ net.fetches[1].status = "verified"

\* the steps whose handler calls refreshStreams(): boot, follow, the resumed unfollow
\* and ignore handlers, un-ignore, clear-ignored, the verified-only box, the filter
\* debounce callback and a push event
RefreshTriggers ==
  {"boot", "follow", "confirmClose", "unignore", "clearIgnored",
   "verifiedOnlyChange", "filterDebounce", "push"}

\* a step of this state called refreshStreams()
CallMade == hist.step # "advance" /\ hist.refreshCalls > 0

\* calls were collapsed into the run in flight: no run has started since
Owed == hist.callsInFlight > 0

\* C26 as the specification states it: after every call of refreshStreams() the
\* state is eventually sent to the server (a request is issued at or after it)
C26_AsClaimed == CallMade ~> (hist.fetchesIssued > 0 /\ ~Owed)

\* C26: every call of refreshStreams() starts a run of _refreshStreamsOnce at
\* once or is recorded in refreshQueued while a run is in flight; a recorded
\* call is eventually followed by the start of a run; and a run that starts
\* with a followed game issues a request carrying the state of that moment
C26_NoLostTrigger ==
  /\ [](CallMade => (hist.onceRuns > 0 \/ Owed))
  /\ [](Owed => (state.refreshQueued /\ state.refreshInFlight /\ net.fetches # <<>>))
  /\ (Owed ~> (~Owed /\ hist.onceRuns > 0))
  /\ []((CallMade /\ hist.onceRuns > 0 /\ state.followedGameIds # <<>>)
         => /\ hist.fetchesIssued > 0
            /\ net.fetches[Len(net.fetches)] = RequestParams(World))

\* the request settled with two calls collapsed into it and the run they were
\* owed has started
C26_Witness ==
  /\ RequestSettled
  /\ hist.collapsed = 2
  /\ hist.onceRuns = 1 /\ hist.fetchesIssued = 1
  /\ ~Owed

\* the rendering of this step's response threw (the first layout call of the
\* step applied nothing)
RenderThrew(h) ==
  h.step = "fetchOk" /\ h.layout # <<>> /\ h.layout[1].applied = Null

\* the attempt that ended in this step failed
AttemptFailed(h) == h.step = "fetchFail" \/ RenderThrew(h)

\* the controller is free again, and a refresh queued meanwhile has started
Released ==
  /\ hist'.onceRuns = 0 => (~state'.refreshInFlight /\ ~state'.refreshQueued)
  /\ hist'.collapsed > 0 => (hist'.onceRuns > 0 /\ ~state'.refreshQueued)

\* the payload, and while no further run has started the cards and rows, are
\* what they were before the attempt ended
Kept ==
  /\ state'.lastStreamsPayload = state.lastStreamsPayload
  /\ hist'.onceRuns = 0 => (dom'.children = dom.children /\ dom'.nodes = dom.nodes)

\* C27 as the specification states it: when the fetch or its decoding fails, or
\* the rendering throws, refreshInFlight is reset, a refresh queued during the
\* attempt is started, and lastStreamsPayload and the rendered hierarchy are
\* what they were before
C27_AsClaimed == [][AttemptFailed(hist') => (Released /\ Kept)]_vars

\* a run of _refreshStreamsOnce started in this step and found nothing followed
EmptyRun == hist'.step # "advance" /\ hist'.onceRuns > 0 /\ state'.followedGameIds = <<>>

\* lastStreamsPayload is what it was when the run started: the response this
\* step stored before its trailing run, or else the payload of before the step
PayloadAsAtStart ==
  IF hist'.step = "fetchOk"
  THEN \E i \in DOMAIN net.fetches : \E data \in Responses(net.fetches[i]) :
         state'.lastStreamsPayload = Some(data)
  ELSE state'.lastStreamsPayload = state.lastStreamsPayload

\* C30: a run of _refreshStreamsOnce that starts with no followed game issues no
\* request, leaves the container with the placeholder and no card, and leaves
\* lastStreamsPayload as it found it; so does a trailing run started by the
\* finally block after calls were collapsed
C30_EmptyRun ==
  [][EmptyRun =>
       /\ hist'.fetchesIssued = 0
       /\ Len(net'.fetches) <= Len(net.fetches)
       /\ env.rootPresent => (dom'.children = <<>> /\ dom'.placeholder = "Follow a game")
       /\ PayloadAsAtStart]_vars

\* the request settled after the last game was unfollowed during it: the trailing
\* run found nothing followed, with cards of an earlier payload on the page before
C30_Witness ==
  /\ RequestSettled
  /\ hist.collapsed > 0
  /\ hist.onceRuns = 1
  /\ state.followedGameIds = <<>>
  /\ state.lastStreamsPayload # Null
  /\ hist.fetchesIssued = 0
  /\ dom.placeholder = "Follow a game"

\* C17: a failed /api/streams request is not retried.  The step in which a fetch
\* fails issues a call only if refreshStreams() was called while that fetch was in
\* flight; otherwise it leaves the controller idle with nothing outstanding, and
\* every later call is issued by a step whose handler calls refreshStreams().
C17_NoRetry ==
  /\ (hist.step = "fetchFail" /\ hist.collapsed = 0) =>
       /\ hist.fetchesIssued = 0
       /\ net.fetches = <<>>
       /\ ~state.refreshInFlight
       /\ ~state.refreshQueued
  /\ (hist.step # "advance" /\ hist.fetchesIssued >= 1) =>
       IF RequestSettled THEN hist.collapsed >= 1 ELSE hist.step \in RefreshTriggers

\* a request for a followed game failed with no refresh asked for meanwhile
C17_Witness ==
  /\ hist.step = "fetchFail"
  /\ hist.collapsed = 0
  /\ state.followedGameIds # <<>>

----------------------------------------------------------------------------
(* Properties of the push channel *)

\* C11: Push subscription - at most one subscription is open; it is the one
\* state.es holds and it was opened for exactly the current followed set; with an
\* empty followed set none is open.  (The followed set changes only in boot, follow
\* and unfollow, each of which reconnects in the same step.)
C11_OneSubscription ==
  /\ Len(net.sse) <= 1
  /\ state.followedGameIds = <<>> => net.sse = <<>> /\ state.es = Null
  /\ state.followedGameIds # <<>> =>
       /\ Len(net.sse) = 1
       /\ state.es = Some(net.sse[1])
       /\ net.sse[1].game_ids = state.followedGameIds

\* a second game was followed: the first subscription is closed and the one open
\* names both games
C11_Witness ==
  /\ hist.step = "follow"
  /\ net.opened = 2
  /\ Len(net.sse) = 1
  /\ net.sse[1].game_ids = <<"g1", "g2">>

----------------------------------------------------------------------------
(* Properties of the reconciliation *)

\* no exit timer and no deferred pass is pending
Settled == \A i \in DOMAIN timers : timers[i].kind \notin {"exit", "deferred"}

LatestPayload == state.lastStreamsPayload[1]

Keys(kids) == [i \in DOMAIN kids |-> dom.nodes[kids[i]].key]

GroupKeys(payload) == [i \in DOMAIN payload.games |-> payload.games[i].game.id]

StreamKeySeq(l) == [i \in DOMAIN l |-> l[i].id]

\* rows of G1's card that show S1 and are not exiting
LiveS1Rows ==
  LET card == MapOf(World, dom.children, GameIds)[G1]
  IN IF card = Null THEN {}
     ELSE {n \in Range(dom.nodes[card[1]].list) :
             dom.nodes[n].key = S1 /\ ~dom.nodes[n].exiting}

\* C4 (as claimed): Generation safety - after A (lists S1), B (drops S1, its
\* exit starts) and C (lists S1 again, reconciled before B's deferred pass fires),
\* once every timer has expired G1's list shows exactly one live node for S1.
C4_AsClaimed ==
  (hist.scenario = "ABC" /\ timers = <<>>) => Cardinality(LiveS1Rows) = 1

\* the cards in the document that show game g / the rows of a card that show s
CardsOf(g) == {n \in Range(dom.children) : dom.nodes[n].key = g}
RowsOf(card, s) == {n \in Range(dom.nodes[card].list) : dom.nodes[n].key = s}

\* C5 (as claimed): Uniqueness - once reconciliation has settled there is exactly
\* one rendered node per game id of the payload and exactly one rendered node per
\* stream id within its game.
C5_AsClaimed ==
  (Settled /\ state.lastStreamsPayload # Null /\ dom.placeholder = "none") =>
    \A i \in DOMAIN LatestPayload.games :
      LET g == LatestPayload.games[i]
      IN /\ Cardinality(CardsOf(g.game.id)) = 1
         /\ \A card \in CardsOf(g.game.id) :
              \A s \in StreamKeys(g.streams) : Cardinality(RowsOf(card, s)) = 1

\* C6 (as claimed): Convergence - at every settled instant the rendered game nodes
\* are exactly the games of the latest payload in payload order, and each game's
\* rendered stream nodes are exactly that game's streams in payload order.
C6_AsClaimed ==
  (Settled /\ state.lastStreamsPayload # Null /\ dom.placeholder = "none") =>
    /\ Keys(dom.children) = GroupKeys(LatestPayload)
    /\ \A i \in DOMAIN dom.children :
         i \in DOMAIN LatestPayload.games =>
           Keys(dom.nodes[dom.children[i]].list)
             = StreamKeySeq(LatestPayload.games[i].streams)

\* C7 (as claimed): Node identity - for two consecutive payloads, every game id
\* and every stream id present in both keeps the same rendered node instance and
\* receives no second enter sequence.
C7_AsClaimed ==
  (hist.step = "fetchOk" /\ hist.prevPayload # Null /\ hist.prevShown # Null) =>
    \A g \in GameIds :
      LET old == Group(hist.prevPayload[1], g)
          new == Group(LatestPayload, g)
          was == hist.prevShown[1][g]
          is == hist.shown[1][g]
      IN (old # Null /\ new # Null) =>
           /\ is.card = was.card
           /\ is.card # Null
           /\ dom.nodes[is.card[1]].enters <= 1
           /\ \A s \in StreamKeys(old[1].streams) \cap StreamKeys(new[1].streams) :
                /\ is.rows[s] = was.rows[s]
                /\ is.rows[s] # Null
                /\ dom.nodes[is.rows[s][1]].enters <= 1

\* node n is on display: a card of the container, or a row of such a card
Displayed(n) ==
  \/ Contains(dom.children, n)
  \/ \E card \in Range(dom.children) : Contains(dom.nodes[card].list, n)

\* the exit timer of node n, or of the card that holds row n, is the callback to run
ExitDue(n) ==
  /\ TimerDue("exit")
  /\ \/ timers[NextTimer].node = n
     \/ Contains(dom.nodes[timers[NextTimer].node].list, n)

\* C12 (as claimed): a rendered game or stream node leaves the display only in the
\* step that runs the exit timer started for it (280 ms after its exit sequence
\* began); no other operation detaches a node.
C12_AsClaimed ==
  [][\A n \in DOMAIN dom.nodes :
       (Displayed(n) /\ ~Displayed(n)') => (ExitDue(n) /\ hist'.step = "exit")]_vars

\* the pending removal timers of node n
ExitTimers(n) == {i \in DOMAIN timers : timers[i].kind = "exit" /\ timers[i].node = n}

\* the cards in the container whose game the latest reconciled payload does not list
AbsentCards ==
  IF state.lastStreamsPayload = Null THEN {}
  ELSE {n \in Range(dom.children) : dom.nodes[n].key \notin Range(GroupKeys(LatestPayload))}

\* every absent card is in its exit sequence with its one removal timer pending,
\* and no node has two removal timers
ExitPending ==
  /\ \A n \in AbsentCards : dom.nodes[n].exiting /\ Cardinality(ExitTimers(n)) = 1
  /\ \A n \in DOMAIN dom.nodes : Cardinality(ExitTimers(n)) <= 1

\* a step that starts an exit sets a removal timer of EXIT_MS for the node, a step
\* adds no removal timer for a node already exiting, and the callback of a removal
\* timer, run when the timer's EXIT_MS have passed, takes its node out of the container
ExitStep ==
  /\ \A n \in DOMAIN dom.nodes :
       IF dom.nodes[n].exiting
       THEN Cardinality(ExitTimers(n)') <= Cardinality(ExitTimers(n))
       ELSE dom'.nodes[n].exiting =>
              \E i \in DOMAIN timers' :
                timers'[i] = Timer("exit", EXIT_MS, n, 0, <<>>, FALSE)
  /\ hist'.step = "exit" =>
       /\ TimerDue("exit")
       /\ ~Contains(dom'.children, timers[NextTimer].node)

\* C13: a card whose game id is absent from the payload just reconciled is put into
\* its exit sequence by that reconciliation and leaves the container when its removal
\* timer of 280 ms runs; a card already exiting gets no second exit and no second timer.
C13_ExitOnce == []ExitPending /\ [][ExitStep]_vars

\* a reconciliation found a card that an earlier payload had already dropped: it is
\* still in the container, exiting, part of its delay gone
C13_Witness ==
  /\ hist.step = "fetchOk"
  /\ hist.prevPayload # Null
  /\ \E n \in AbsentCards :
       /\ dom.nodes[n].key \notin Range(GroupKeys(hist.prevPayload[1]))
       /\ dom.nodes[n].exiting
       /\ \E i \in ExitTimers(n) : timers[i].due < EXIT_MS

\* the calls of updateGameStreams this step made on card n
UpdatesOf(h, n) ==
  Cardinality({i \in DOMAIN h.gen : h.gen[i].op = "update" /\ h.gen[i].card = n})

\* the deferred pass of this step found another generation than it captured
StalePass(h) ==
  h.step = "deferred" /\ h.gen # <<>> /\ h.gen[1].from # h.gen[1].to

GenerationStep ==
  /\ hist'.step # "advance" =>
       \A n \in DOMAIN dom'.nodes :
         dom'.nodes[n].kind = "game" =>
           dom'.nodes[n].version =
             (IF n \in DOMAIN dom.nodes THEN dom.nodes[n].version ELSE 0)
               + UpdatesOf(hist', n)
  /\ StalePass(hist') => dom' = dom

\* C23: every call of updateGameStreams raises the card's generation counter by
\* exactly one and nothing else changes it; a deferred pass that captured
\* another generation than the card's current one leaves the document as it was
C23_Generation ==
  /\ [](\A i \in DOMAIN hist.gen :
         hist.gen[i].op = "update" => hist.gen[i].to = hist.gen[i].from + 1)
  /\ [][GenerationStep]_vars

\* a deferred pass ran after a later reconciliation of its card
C23_Witness == StalePass(hist)

\* the stream list of card n, empty while the card does not exist
ListIn(d, n) == IF n \in DOMAIN d.nodes THEN d.nodes[n].list ELSE <<>>

\* the deferred passes of card n that captured its current generation
DeferredOf(d, ts, n) ==
  {i \in DOMAIN ts : /\ ts[i].kind = "deferred" /\ ts[i].node = n
                      /\ ts[i].version = d.nodes[n].version}

\* the rows of card n that are not exiting are in the order of `streams`
InOrderOf(d, n, streams) ==
  LET live == SelectSeq(d.nodes[n].list, LAMBDA r : ~d.nodes[r].exiting)
      keys == [i \in DOMAIN live |-> d.nodes[live[i]].key]
  IN keys = SelectSeq(StreamKeySeq(streams), LAMBDA k : k \in Range(keys))

StreamsFor(payload, n, d) ==
  LET g == Group(payload, d.nodes[n].key) IN IF g = Null THEN <<>> ELSE g[1].streams

\* a reconciliation of card n in this step: with a deferred pass scheduled, the
\* rows it found keep their places and the new ones follow them; without one
\* the rows are in payload order
ReorderedOrDeferred(n) ==
  IF DeferredOf(dom', timers', n) # {}
  THEN /\ \A i \in DeferredOf(dom', timers', n) : timers'[i].due = DEFERRED_MS
       /\ Len(dom'.nodes[n].list) >= Len(ListIn(dom, n))
       /\ SubSeq(dom'.nodes[n].list, 1, Len(ListIn(dom, n))) = ListIn(dom, n)
  ELSE InOrderOf(dom', n, StreamsFor(state'.lastStreamsPayload[1], n, dom'))

\* the deferred pass of this step ran: it captured the current generation
RanPass(h) == h.step = "deferred" /\ h.gen # <<>> /\ h.gen[1].from = h.gen[1].to

ReorderStep ==
  \A n \in DOMAIN dom'.nodes :
    dom'.nodes[n].kind = "game" =>
      IF hist'.step # "advance" /\ UpdatesOf(hist', n) > 0
      THEN ReorderedOrDeferred(n)
      ELSE IF RanPass(hist') /\ hist'.gen[1].card = n
      THEN InOrderOf(dom', n, timers[NextTimer].streams)
      ELSE dom'.nodes[n].list =
             SelectSeq(ListIn(dom, n), LAMBDA r : r \in Range(dom'.nodes[n].list))

\* C24: a reconciliation of a game's streams that finds no stale row leaves the
\* rows that are not exiting in payload order when it returns; one that finds
\* stale rows keeps the rows it found in their order, appends the new ones, and
\* schedules the pass that reorders them for 320 ms later; until then no step
\* but a later reconciliation changes the order
C24_ReorderTiming == [][ReorderStep]_vars

\* a reconciliation found a stale row, appended a new one and deferred the reorder
C24_Witness ==
  /\ hist.step = "fetchOk"
  /\ \E n \in DOMAIN dom.nodes :
       /\ UpdatesOf(hist, n) > 0
       /\ DeferredOf(dom, timers, n) # {}
       /\ LET l == dom.nodes[n].list
          IN /\ Len(l) = 2
             /\ dom.nodes[l[1]].exiting /\ dom.nodes[l[1]].enters = 1
             /\ ~dom.nodes[l[2]].exiting
             /\ state.lastStreamsPayload[1].games[1].streams # <<>>

\* the rows of a list that are not in their exit sequence
LiveRows(d, list) == {r \in Range(list) : ~d.nodes[r].exiting}

\* the deferred pass of this step ran on rows that its payload all lists, and
\* took none of them out
NothingStale ==
  RanPass(hist') =>
    LET n == hist'.gen[1].card
        ids == Range(StreamKeySeq(timers[NextTimer].streams))
    IN /\ \A r \in LiveRows(dom, dom.nodes[n].list) : dom.nodes[r].key \in ids
       /\ LiveRows(dom, dom.nodes[n].list) \subseteq Range(dom'.nodes[n].list)

\* the deferred pass of this step left the rows of its list the same rows
OnlyReorders ==
  RanPass(hist') =>
    LET n == hist'.gen[1].card
    IN /\ Range(dom'.nodes[n].list) = Range(dom.nodes[n].list)
       /\ DOMAIN dom'.nodes = DOMAIN dom.nodes

\* C29 (as claimed): when a deferred pass runs with the generation it captured,
\* every row of the list that is not exiting has its id in the pass's payload,
\* so the pass removes no row and does nothing but reorder the rows
C29_AsClaimed == [][NothingStale /\ OnlyReorders]_vars

----------------------------------------------------------------------------
(* Properties of the preference lists *)

\* the ids of the entries of an ignored list
IdsOf(users) == [i \in DOMAIN users |-> users[i].id]

\* C15: state.followedGameIds holds no id twice and state.ignoredUsers no two entries
\* of one id, after boot from any address and cookies and after every follow,
\* unfollow, ignore, un-ignore, clear-ignored and backfill; and a cookie the step
\* wrote holds the list of the state, so no id twice either.
C15_NoDuplicates ==
  /\ IsInjective(state.followedGameIds)
  /\ IsInjective(IdsOf(state.ignoredUsers))
  /\ "followed_games" \in hist.wrote =>
       /\ cookies.followed_games = Some(state.followedGameIds)
       /\ IsInjective(cookies.followed_games[1])
  /\ "ignored_streamers" \in hist.wrote =>
       /\ cookies.ignored_streamers = Some(state.ignoredUsers)
       /\ IsInjective(IdsOf(cookies.ignored_streamers[1]))

\* the page was opened with one game twice in the cookie (as a string and as a
\* number), a second game was followed, and the cookie was written
C15_Witness ==
  /\ hist.boot # Null
  /\ hist.boot[1].cookies.followed_games = Some(<<"g1", "#g1">>)
  /\ hist.step = "follow"
  /\ "followed_games" \in hist.wrote
  /\ state.followedGameIds = <<"g1", "g2">>
  /\ Len(state.ignoredUsers) = 1

\* the list a cookie holds, empty when there is no cookie
ListOf(cookie) == IF cookie = Null THEN <<>> ELSE cookie[1]

\* C16: at boot each list comes from the address when the address carries a
\* non-empty one, and the cookie of that list is then overwritten with it; otherwise
\* the list comes from the cookie and the cookie is not written.  The filters come
\* from the filter cookie whatever the address holds.
C16_BootPrecedence ==
  (hist.step = "boot" /\ hist.boot # Null) =>
    LET href == hist.boot[1].href
        jar == hist.boot[1].cookies
        urlGames == parseCsvParam(href.games)
        urlIgnored == parseCsvParam(href.ignored)
        jarGames == ListOf(jar.followed_games)
    IN /\ IF urlGames # <<>>
          THEN /\ state.followedGameIds = unique(urlGames)
               /\ cookies.followed_games = Some(state.followedGameIds)
               /\ "followed_games" \in hist.wrote
          ELSE /\ state.followedGameIds = unique([i \in DOMAIN jarGames |-> String(jarGames[i])])
               /\ cookies.followed_games = jar.followed_games
               /\ "followed_games" \notin hist.wrote
       /\ IF urlIgnored # <<>>
          THEN /\ IdsOf(state.ignoredUsers) = unique(urlIgnored)
               /\ \A i \in DOMAIN state.ignoredUsers : state.ignoredUsers[i].name = NoName
               /\ cookies.ignored_streamers = Some(state.ignoredUsers)
               /\ "ignored_streamers" \in hist.wrote
          ELSE /\ state.ignoredUsers = normalizeIgnored(ListOf(jar.ignored_streamers))
               /\ cookies.ignored_streamers = jar.ignored_streamers
               /\ "ignored_streamers" \notin hist.wrote
       /\ state.filters = normalizeFilters(jar.stream_filters)
       /\ cookies.stream_filters = jar.stream_filters

\* booted from a link with games but no ignored ids and with a filter parameter,
\* over cookies that hold other games, ignored channels and filters
C16_Witness ==
  /\ hist.step = "boot"
  /\ hist.boot # Null
  /\ hist.boot[1].href.games = Some(<<"g2", "g1">>)
  /\ hist.boot[1].href.ignored = Null
  /\ hist.boot[1].href.minViewers # Null
  /\ hist.boot[1].cookies.followed_games = Some(<<"g1", "#g1">>)
  /\ hist.boot[1].cookies.ignored_streamers # Null
  /\ hist.boot[1].cookies.stream_filters # Null
  /\ state.followedGameIds = <<"g2", "g1">>
  /\ state.filters.minViewers = Some(10)

\* the first name the entries of `entries` give for `id`, NoName when none does
FirstName(entries, id) ==
  LET named == SelectSeq(entries, LAMBDA u : u.id = id /\ u.name # NoName)
  IN IF named = <<>> THEN NoName ELSE named[1].name

\* C14: upsertIgnoredUser(id, name) on an id already in the list changes nothing but
\* a null name of that id's entry, which takes the new name; upsert and backfill keep
\* every entry in place with its id and with its name if it had one; and the merge
\* of normalizeIgnored gives each id the first name the raw list has for it, so a
\* name once taken is not replaced by a later item.
C14_Merge ==
  LET a == state.ignoredUsers
      b == hist.before
  IN /\ hist.step \in {"upsert", "backfill"} =>
          /\ Len(a) >= Len(b)
          /\ \A i \in DOMAIN b :
               /\ a[i].id = b[i].id
               /\ b[i].name # NoName => a[i].name = b[i].name
     /\ (hist.step = "upsert" /\ IndexOfId(b, hist.arg[1].id) # 0) =>
          /\ Len(a) = Len(b)
          /\ \A i \in DOMAIN b :
               IF b[i].id = hist.arg[1].id /\ b[i].name = NoName
               THEN a[i] = [b[i] EXCEPT !.name = hist.arg[1].name]
               ELSE a[i] = b[i]
     /\ (hist.step = "boot" /\ hist.boot # Null) =>
          \A i \in DOMAIN a :
            a[i].name = FirstName(EntriesOf(hist.boot[1].cookies.ignored_streamers[1]), a[i].id)

\* upsert was given the name A for an id whose entry is named Z
C14_Witness ==
  /\ hist.step = "upsert"
  /\ hist.arg[1].name = "A"
  /\ \E i \in DOMAIN hist.before :
       /\ hist.before[i].id = hist.arg[1].id
       /\ hist.before[i].name = "Z"
       /\ state.ignoredUsers[i].name = "Z"

----------------------------------------------------------------------------
(* Properties of the column layout *)

\* the columns a container of width wd has room for
FitOf(wd) ==
  Max(1, (wd + MASONRY_COL_GAP) \div (MASONRY_COL_WIDTH + MASONRY_COL_GAP))

\* C18 (as claimed): every call of updateMasonryColumns(cardCount) with the container
\* present applies columns = clamp(fit, 1, max(1, cardCount)), and the applied count
\* lies in [1, min(fit, cardCount)].
C18_AsClaimed ==
  \A i \in DOMAIN hist.layout :
    LET c == hist.layout[i]
        fit == FitOf(c.width)
    IN /\ c.applied # Null
       /\ c.applied[1] = Min(Max(fit, 1), Max(1, c.cardCount))
       /\ 1 <= c.applied[1]
       /\ c.applied[1] <= Min(fit, c.cardCount)

\* C19 (as claimed, on a page where line 120 completes): after every recomputation
\* of the column count, by a reconciliation or by the resize callback, a used-column
\* measurement is still to come until one has run in the second frame after the
\* recomputation; and once a measurement has run the applied count does not exceed
\* the number of distinct offsets it saw.
C19_AsClaimed ==
  env.globalsDefined =>
    /\ hist.layoutPending => dom.frames # <<>>
    /\ (hist.step = "frame" /\ hist.measured > 0) => dom.columnCount <= hist.used

\* the games of the latest payload, none before the first response
LatestCount ==
  IF state.lastStreamsPayload = Null THEN 0 ELSE Len(LatestPayload.games)

ResizeTimers == {i \in DOMAIN timers : timers[i].kind = "resize"}

\* the listener is registered at most once; resize events less than 100 ms apart
\* leave one timer, due 100 ms after the last of them; its callback calls
\* updateMasonryColumns once with the game count of the latest payload
ResizeDebounced ==
  /\ dom.resizeListeners <= 1
  /\ Cardinality(ResizeTimers) <= 1
  /\ \A i \in ResizeTimers : timers[i].due = RESIZE_DEBOUNCE_MS - hist.sinceResize
  /\ hist.step = "resizeTimer" =>
       /\ hist.sinceResize = RESIZE_DEBOUNCE_MS
       /\ Len(hist.layout) = 1
       /\ hist.layout[1].cardCount = LatestCount

\* C20 (as claimed): resize events each within 100 ms of the previous one produce
\* exactly one column recomputation, 100 ms after the last event, with the game count
\* of the latest payload; the listener is registered at most once.
C20_AsClaimed ==
  /\ ResizeDebounced
  /\ hist.step = "resizeTimer" =>
       /\ hist.layout[1].applied # Null
       /\ dom.columnCount = hist.layout[1].applied[1]

----------------------------------------------------------------------------
(* Properties of the confirmation modal *)

\* the promise returned by the confirmDialog call of this step
NewPromise == confirm.promises[Len(confirm.promises)]

PromptRequested ==
  hist.step \in {"unfollowClick", "ignoreClick"} /\ confirm.promises # <<>>

\* C21 as the specification states it: when the modal's elements are missing,
\* the promise confirmDialog returns is settled when the call returns
C21_AsClaimed ==
  (PromptRequested /\ ~(env.confirmSurface /\ env.confirmLabels))
    => NewPromise.status # "pending"

\* the promises this step resolved with true
Accepted(c, h) == SelectSeq(h.resolved, LAMBDA p : c.promises[p].status = "true")

\* the step left the followed set, the ignored list, the cookies and the
\* subscription alone and called refreshStreams() not once
Untouched ==
  /\ state'.followedGameIds = state.followedGameIds
  /\ state'.ignoredUsers = state.ignoredUsers
  /\ cookies' = cookies
  /\ net'.sse = net.sse /\ net'.opened = net.opened
  /\ net'.fetches = net.fetches
  /\ hist'.refreshCalls = 0

\* what the unfollow handler of game g does after its await
Unfollowed(g) ==
  /\ state'.followedGameIds = Without(state.followedGameIds, g)
  /\ cookies'.followed_games = Some(state'.followedGameIds)
  /\ net'.opened = net.opened + (IF state'.followedGameIds = <<>> THEN 0 ELSE 1)
  /\ \A i \in DOMAIN net'.sse : net'.sse[i].game_ids = state'.followedGameIds
  /\ state'.ignoredUsers = state.ignoredUsers
  /\ cookies'.ignored_streamers = cookies.ignored_streamers
  /\ hist'.refreshCalls >= 1

\* what the ignore handler of channel uid does after its await
Ignored(uid) ==
  /\ IdsOf(state'.ignoredUsers) = Append(IdsOf(state.ignoredUsers), uid)
  /\ cookies'.ignored_streamers = Some(state'.ignoredUsers)
  /\ state'.followedGameIds = state.followedGameIds
  /\ cookies'.followed_games = cookies.followed_games
  /\ net'.sse = net.sse /\ net'.opened = net.opened
  /\ hist'.refreshCalls >= 1

PromptSteps ==
  {"unfollowClick", "ignoreClick", "confirmOk", "confirmDismiss", "confirmClose"}

GatedStep ==
  LET yes == Accepted(confirm', hist')
  IN /\ hist'.step \in PromptSteps =>
          IF yes = <<>> THEN Untouched
          ELSE /\ Len(yes) = 1
               /\ confirm.promises[yes[1]].status = "pending"
               /\ LET pr == confirm'.promises[yes[1]]
                  IN IF pr.kind = "unfollow" THEN Unfollowed(pr.arg) ELSE Ignored(pr.arg)
     /\ hist'.step \notin PromptSteps =>
          /\ state'.followedGameIds = state.followedGameIds
          /\ IdsOf(state'.ignoredUsers) = IdsOf(state.ignoredUsers)
          /\ cookies'.followed_games = cookies.followed_games
          /\ net'.sse = net.sse

\* C25: the unfollow and the ignore handler change the followed set or the
\* ignored list, write the cookie, reconnect the subscription and call
\* refreshStreams() only in the step in which their own confirmation resolved
\* true; a step that resolves a confirmation false, or none, leaves all of them
\* unchanged and triggers no refresh
C25_Gated == [][GatedStep]_vars

\* the handler of an accepted confirmation has just gone on, while the one of an
\* earlier confirmation still waits
C25_Witness ==
  /\ hist.step = "confirmClose"
  /\ \E p, q \in DOMAIN confirm.promises :
       /\ p < q
       /\ confirm.promises[p].status = "pending"
       /\ confirm.promises[q].status = "true"
       /\ q \in Range(hist.resolved)

CloseTimers(ts) == {i \in DOMAIN ts : ts[i].kind = "confirmClose"}

AcceptTimers(ts) == {i \in CloseTimers(ts) : ts[i].result}

\* a promise resolves true only in the callback of a close timer that an accept
\* started, while it is the outstanding prompt
TrueByOwnAccept ==
  \A p \in DOMAIN confirm.promises :
    (confirm.promises[p].status = "pending" /\ confirm'.promises[p].status = "true")
      => /\ hist'.step = "confirmClose"
         /\ confirm.resolve = Some(p)
         /\ timers[NextTimer].result

\* a close timer carrying true is started by an accept on the outstanding
\* prompt, and lives only as long as that prompt is the outstanding one
AcceptStaysOwn ==
  AcceptTimers(timers') # {}
    => /\ confirm'.resolve = confirm.resolve
       /\ confirm.resolve # Null
       /\ AcceptTimers(timers) # {} \/ hist'.step = "confirmOk"

\* no close timer outlives the prompt it was started for
NoTimerInherited ==
  (confirm'.resolve # confirm.resolve /\ confirm'.resolve # Null)
    => CloseTimers(timers') = {}

\* C28 as the specification states it: a confirmation resolves true only if
\* accept was activated while it was the outstanding prompt, and neither an
\* accept nor a pending close timer of an earlier prompt resolves a later one
C28_AsClaimed == [][TrueByOwnAccept /\ AcceptStaysOwn /\ NoTimerInherited]_vars

PendingPromises ==
  {p \in DOMAIN confirm.promises : confirm.promises[p].status = "pending"}

\* C8 (as claimed): Confirmation supersede - when confirmDialog is called while an
\* earlier confirmation is pending, the earlier promise is resolved with false
\* before the new prompt is presented; at most one confirmation is outstanding.
C8_AsClaimed ==
  /\ Cardinality(PendingPromises) <= 1
  /\ hist.step \in {"unfollowClick", "ignoreClick"} =>
       \A p \in 1..(Len(confirm.promises) - 1) :
         confirm.promises[p].status # "pending"

\* C9 (as claimed): a confirmation answered first with accept resolves true, and
\* one answered first with cancel, backdrop or Escape resolves false, whatever
\* is clicked or pressed during the 200 ms close transition.
C9_AsClaimed ==
  \A p \in DOMAIN confirm.promises :
    LET pr == confirm.promises[p]
    IN /\ pr.status = "true" => pr.first = "accept"
       /\ pr.status = "false" => pr.first = "dismiss"

----------------------------------------------------------------------------
(* Properties of the numeric filters *)

Unset(x) == x.tag \in {"empty", "null", "undefined", "blank", "nan", "inf"}

\* what the filter is said to become for the raw input x
Normalized(x) == IF Unset(x) THEN Null ELSE Some(Trunc(x.n, x.d))

\* C22 as the specification states it: a filter read from the cookie or from a
\* field is unset when the input is empty, null, undefined, blank or not a
\* finite number, otherwise the input truncated toward zero; never 0 for an
\* invalid or empty input
C22_AsClaimed ==
  /\ (hist.step = "numberInput" /\ hist.arg # Null)
       => state.filters[hist.arg[1].key] = Normalized(hist.arg[1].raw)
  /\ (hist.step = "boot" /\ hist.boot # Null /\ hist.boot[1].cookies.stream_filters # Null)
       => \A k \in NumericKeys :
            state.filters[k] = Normalized(hist.boot[1].cookies.stream_filters[1][k])

----------------------------------------------------------------------------
(* Properties of the filter debounce *)

DebounceTimers == {i \in DOMAIN timers : timers[i].kind = "filterDebounce"}

FilterEdit == hist.step \in {"numberInput", "verifiedOnlyChange"}

\* the query parameter a numeric filter is sent as (app.js 705-708)
ParamOf(key) ==
  CASE key = "minViewers" -> "min_viewers"
    [] key = "maxViewers" -> "max_viewers"
    [] key = "minFollowers" -> "min_followers"
    [] key = "maxFollowers" -> "max_followers"

\* the debounced call fires 250 ms after the last edit, once, and sees its value
DebouncedCall ==
  hist.step = "filterDebounce" =>
    /\ hist.sinceEdit = FILTER_DEBOUNCE_MS
    /\ hist.refreshCalls = 1
    /\ DebounceTimers = {}
    /\ state.filters[hist.editKey] = hist.editValue
    /\ hist.fetchesIssued = 1 => net.fetches[1][ParamOf(hist.editKey)] = hist.editValue

\* C10 (as claimed): Debounce - for edits of any filter field, K edits within 250 ms
\* produce at most one refreshStreams() call, fired 250 ms after the last edit with
\* its values; no filter edit calls refreshStreams() without the debounce.
C10_AsClaimed ==
  /\ Cardinality(DebounceTimers) <= 1
  /\ FilterEdit => hist.refreshCalls = 0
  /\ DebouncedCall

\* C10 (amended): the same for edits of the four numeric filter fields (minimum
\* and maximum viewers and followers): an edit calls nothing and leaves exactly one
\* debounce timer pending, 250 ms away.  (A change of the verified-only checkbox
\* calls refreshStreams() at once.)
C10_Debounce ==
  /\ Cardinality(DebounceTimers) <= 1
  /\ hist.step = "numberInput" =>
       /\ hist.refreshCalls = 0
       /\ \E i \in DebounceTimers : timers[i].due = FILTER_DEBOUNCE_MS
  /\ DebouncedCall

\* two edits fell within 250 ms and one debounced call followed
C10_Witness ==
  /\ hist.step = "filterDebounce"
  /\ hist.edits >= 2
  /\ hist.refreshCalls = 1

====
